---- MODULE Spec2Model ----
(***************************************************************************)
(* Catalog introspection and metadata synchronisation (marg0sav/metadata). *)
(*                                                                         *)
(* The model covers MetaRepository (add_database, rescan_schema and the    *)
(* read API), PostgresExtractor and the metadata store the repository      *)
(* talks to.  The store is a PostgreSQL database used through SQLAlchemy   *)
(* engines at the default isolation level (READ COMMITTED): every SQL      *)
(* statement is one step, a statement reads the rows committed when it     *)
(* runs plus the rows its own transaction wrote, and a transaction's       *)
(* writes reach the committed store at its commit.                         *)
(*                                                                         *)
(* Identifiers (schema, table and column names) are sequences of           *)
(* one-character strings, so that 'schema.table' is a concatenation and    *)
(* ORDER BY is a lexicographic comparison.                                 *)
(***************************************************************************)
EXTENDS Integers, Sequences, FiniteSets, TLC

(* ------------------------------------------------------------------ *)
(* Bounds of the model                                                 *)
(* ------------------------------------------------------------------ *)

\* number of writing operations (add_database, rescan_schema) started in a run
MaxRuns == 2

\* the operating-system processes (application instances) sharing the store
Procs == {1, 2}

\* logical database names the operations are called with
DbNames == {"shop", "crm"}

(* ------------------------------------------------------------------ *)
(* Identifiers and their ordering                                      *)
(* ------------------------------------------------------------------ *)

\* the characters identifiers are made of, in code-point order
Alphabet ==
  << ".", "_", "a", "b", "c", "d", "e", "f", "g", "h", "i", "j", "k", "l", "m",
     "n", "o", "p", "q", "r", "s", "t", "u", "v", "w", "x", "y", "z" >>

Code(ch) == CHOOSE n \in 1..Len(Alphabet) : Alphabet[n] = ch

\* the code points of an identifier
Codes(s) == [n \in 1..Len(s) |-> Code(s[n])]

RECURSIVE KeyLess(_, _)
\* lexicographic order of two sort keys (sequences of numbers)
KeyLess(k1, k2) ==
  IF k2 = << >> THEN FALSE
  ELSE IF k1 = << >> THEN TRUE
  ELSE IF Head(k1) < Head(k2) THEN TRUE
  ELSE IF Head(k1) > Head(k2) THEN FALSE
  ELSE KeyLess(Tail(k1), Tail(k2))

\* s < t in the order ORDER BY uses for text (code points, a prefix first)
StrLess(s, t) == KeyLess(Codes(s), Codes(t))

\* the sort key of ORDER BY a, b over two text columns
Key2(a, b) == Codes(a) \o << 0 >> \o Codes(b)

\* ORDER BY: rows sorted by their keys (keys[n] is the key of rows[n]); rows with
\* equal keys keep their order
SortByKey(rows, keys) ==
  LET Before(m, n) == KeyLess(keys[m], keys[n]) \/ (keys[m] = keys[n] /\ m < n)
      Rank(n) == 1 + Cardinality({m \in 1..Len(rows) : Before(m, n)})
  IN  [k \in 1..Len(rows) |-> rows[CHOOSE n \in 1..Len(rows) : Rank(n) = k]]

Dot == << "." >>

\* meta_repository._fq: f"{schema}.{table}"
_fq(schema, table) == schema \o Dot \o table

\* "." in table (list_columns' argument check)
HasDot(s) == \E n \in 1..Len(s) : s[n] = "."

RECURSIVE SeqToSet(_)
SeqToSet(s) == IF s = << >> THEN {} ELSE {Head(s)} \cup SeqToSet(Tail(s))

(* ------------------------------------------------------------------ *)
(* Source catalogs: what the extractor's queries find in a database    *)
(* ------------------------------------------------------------------ *)

pub == << "p" >>

\* information_schema.tables row
TRow(s, t, k) == [table_schema |-> s, table_name |-> t, table_type |-> k]

\* pg_attribute row (joined with pg_class, pg_namespace, pg_attrdef)
ARow(s, t, num, name, type, notnull, dropped) ==
  [nspname |-> s, relname |-> t, attnum |-> num, attname |-> name,
   formatted_type |-> type, attnotnull |-> notnull, attisdropped |-> dropped,
   column_default |-> "NULL"]

\* information_schema.table_constraints row
TCRow(s, t, cname, type) ==
  [table_schema |-> s, table_name |-> t, constraint_name |-> cname,
   constraint_type |-> type]

\* information_schema.key_column_usage row: a column of a primary-key, unique
\* or foreign-key constraint
KRow(s, t, cname, col, pos) ==
  [table_schema |-> s, table_name |-> t, constraint_name |-> cname,
   column_name |-> col, ordinal_position |-> pos]

\* pg_constraint row of a foreign key, one per subscript of conkey
FRow(s, t, cname, ts, tt, scol, tcol, pos) ==
  [src_schema |-> s, src_table |-> t, constraint_name |-> cname,
   tgt_schema |-> ts, tgt_table |-> tt, src_col |-> scol, tgt_col |-> tcol,
   position |-> pos]

\* orders(id pk, customer_id fk -> customers.id), customers(id pk)
CatShop ==
  [tables |-> << TRow(pub, <<"o">>, "BASE TABLE"), TRow(pub, <<"c">>, "BASE TABLE"),
                 TRow(<<"p","g","_","c","a","t","a","l","o","g">>, <<"p","g","_","c","l","a","s","s">>, "BASE TABLE") >>,
   attrs |-> << ARow(pub, <<"o">>, 1, <<"i">>, "integer", TRUE, FALSE),
                ARow(pub, <<"o">>, 2, <<"k">>, "integer", FALSE, FALSE),
                ARow(pub, <<"c">>, 1, <<"i">>, "integer", TRUE, FALSE),
                ARow(pub, <<"c">>, 2, <<"x">>, "-", FALSE, TRUE),
                ARow(pub, <<"c">>, 0 - 1, <<"t","a","b","l","e","o","i","d">>, "oid", TRUE, FALSE) >>,
   tcrows |-> << TCRow(pub, <<"o">>, <<"o","_","p","k">>, "PRIMARY KEY"),
                 TCRow(pub, <<"o">>, <<"o","_","f","k">>, "FOREIGN KEY"),
                 TCRow(pub, <<"c">>, <<"c","_","p","k">>, "PRIMARY KEY") >>,
   kcurows |-> << KRow(pub, <<"o">>, <<"o","_","p","k">>, <<"i">>, 1),
                  KRow(pub, <<"o">>, <<"o","_","f","k">>, <<"k">>, 1),
                  KRow(pub, <<"c">>, <<"c","_","p","k">>, <<"i">>, 1) >>,
   fkrows |-> << FRow(pub, <<"o">>, <<"o","_","f","k">>, pub, <<"c">>, <<"k">>, <<"i">>, 1) >>]

\* a table with the composite key (t, i) that references itself, and a table
\* listed before it that references it
CatTenant ==
  [tables |-> << TRow(pub, <<"t">>, "BASE TABLE"), TRow(pub, <<"a">>, "VIEW") >>,
   attrs |-> << ARow(pub, <<"t">>, 1, <<"t">>, "integer", TRUE, FALSE),
                ARow(pub, <<"t">>, 2, <<"i">>, "integer", TRUE, FALSE),
                ARow(pub, <<"t">>, 3, <<"r">>, "numeric(10,2)", FALSE, FALSE),
                ARow(pub, <<"a">>, 1, <<"k">>, "integer", FALSE, FALSE) >>,
   tcrows |-> << TCRow(pub, <<"t">>, <<"t","_","p","k">>, "PRIMARY KEY"),
                 TCRow(pub, <<"t">>, <<"t","_","f","k">>, "FOREIGN KEY"),
                 TCRow(pub, <<"a">>, <<"a","_","f","k">>, "FOREIGN KEY") >>,
   kcurows |-> << KRow(pub, <<"t">>, <<"t","_","f","k">>, <<"r">>, 2),
                  KRow(pub, <<"t">>, <<"t","_","p","k">>, <<"i">>, 2),
                  KRow(pub, <<"t">>, <<"t","_","f","k">>, <<"t">>, 1),
                  KRow(pub, <<"a">>, <<"a","_","f","k">>, <<"k">>, 1),
                  KRow(pub, <<"t">>, <<"t","_","p","k">>, <<"t">>, 1) >>,
   fkrows |-> << FRow(pub, <<"t">>, <<"t","_","f","k">>, pub, <<"t">>, <<"r">>, <<"i">>, 2),
                 FRow(pub, <<"a">>, <<"a","_","f","k">>, pub, <<"t">>, <<"k">>, <<"i">>, 1),
                 FRow(pub, <<"t">>, <<"t","_","f","k">>, pub, <<"t">>, <<"t">>, <<"t">>, 1) >>]

\* orders references a table of a schema the scan does not list
CatDangling ==
  [tables |-> << TRow(pub, <<"o">>, "BASE TABLE") >>,
   attrs |-> << ARow(pub, <<"o">>, 1, <<"i">>, "integer", TRUE, FALSE),
                ARow(pub, <<"o">>, 2, <<"k">>, "integer", FALSE, FALSE) >>,
   tcrows |-> << TCRow(pub, <<"o">>, <<"o","_","p","k">>, "PRIMARY KEY"),
                 TCRow(pub, <<"o">>, <<"o","_","f","k">>, "FOREIGN KEY") >>,
   kcurows |-> << KRow(pub, <<"o">>, <<"o","_","p","k">>, <<"i">>, 1),
                  KRow(pub, <<"o">>, <<"o","_","f","k">>, <<"k">>, 1) >>,
   fkrows |-> << FRow(pub, <<"o">>, <<"o","_","f","k">>, <<"h">>, <<"c">>, <<"k">>, <<"i">>, 1) >>]

\* a database without user tables
CatEmpty ==
  [tables |-> << >>, attrs |-> << >>, tcrows |-> << >>, kcurows |-> << >>, fkrows |-> << >>]

\* customers(id pk) alone
CatCustomers ==
  [tables |-> << TRow(pub, <<"c">>, "BASE TABLE") >>,
   attrs |-> << ARow(pub, <<"c">>, 1, <<"i">>, "integer", TRUE, FALSE) >>,
   tcrows |-> << TCRow(pub, <<"c">>, <<"c","_","p","k">>, "PRIMARY KEY") >>,
   kcurows |-> << KRow(pub, <<"c">>, <<"c","_","p","k">>, <<"i">>, 1) >>,
   fkrows |-> << >>]

\* orders(id) alone
CatOrders ==
  [tables |-> << TRow(pub, <<"o">>, "BASE TABLE") >>,
   attrs |-> << ARow(pub, <<"o">>, 1, <<"i">>, "integer", TRUE, FALSE) >>,
   tcrows |-> << >>,
   kcurows |-> << >>,
   fkrows |-> << >>]

\* two tables with quoted names: "a.b"."c" (column x) and "a"."b.c" (column y)
CatDotted ==
  [tables |-> << TRow(<<"a",".","b">>, <<"c">>, "BASE TABLE"),
                 TRow(<<"a">>, <<"b",".","c">>, "BASE TABLE") >>,
   attrs |-> << ARow(<<"a",".","b">>, <<"c">>, 1, <<"x">>, "integer", TRUE, FALSE),
                ARow(<<"a">>, <<"b",".","c">>, 1, <<"y">>, "text", FALSE, FALSE) >>,
   tcrows |-> << >>,
   kcurows |-> << >>,
   fkrows |-> << >>]

Catalogs == {CatShop, CatTenant, CatDangling, CatEmpty}

(* ------------------------------------------------------------------ *)
(* PostgresExtractor: the catalog queries and their result shaping     *)
(* ------------------------------------------------------------------ *)

SystemSchemas ==
  { <<"p","g","_","c","a","t","a","l","o","g">>,
    <<"i","n","f","o","r","m","a","t","i","o","n","_","s","c","h","e","m","a">> }

\* the schemas argument: None, or a list
NoSchemas == [given |-> FALSE, list |-> << >>]

\* PostgresExtractor.list_tables
list_tables(c, schemas, include_system_schemas) ==
  LET Keep(r) ==
        /\ include_system_schemas \/ r.table_schema \notin SystemSchemas
        /\ (schemas.given /\ schemas.list # << >>) => r.table_schema \in SeqToSet(schemas.list)
      rows == SelectSeq(c.tables, Keep)
      sorted == SortByKey(rows, [n \in 1..Len(rows) |-> Key2(rows[n].table_schema, rows[n].table_name)])
  IN  [n \in 1..Len(sorted) |->
         [schema |-> sorted[n].table_schema, table_name |-> sorted[n].table_name,
          table_type |-> sorted[n].table_type]]

\* PostgresExtractor.list_columns
list_columns(c, table_schema, table_name) ==
  LET Keep(r) ==
        /\ r.nspname = table_schema
        /\ r.relname = table_name
        /\ r.attnum > 0
        /\ ~r.attisdropped
      rows == SelectSeq(c.attrs, Keep)
      sorted == SortByKey(rows, [n \in 1..Len(rows) |-> << rows[n].attnum >>])
  IN  [n \in 1..Len(sorted) |->
         [name |-> sorted[n].attname, data_type |-> sorted[n].formatted_type,
          is_nullable |-> ~sorted[n].attnotnull, ordinal_position |-> sorted[n].attnum,
          default |-> sorted[n].column_default]]

RECURSIVE GroupPrimaryKeys(_, _)
\* the loop building acc in list_primary_keys; acc keeps the order in which the
\* constraint names first appear
GroupPrimaryKeys(rows, acc) ==
  IF rows = << >> THEN acc
  ELSE LET r == Head(rows)
           hit == {n \in 1..Len(acc) : acc[n].constraint_name = r.constraint_name}
           fresh == [constraint_name |-> r.constraint_name,
                     columns |-> << r.column_name >>,
                     ordinal_positions |-> << r.ordinal_position >>]
       IN  GroupPrimaryKeys(Tail(rows),
             IF hit = {} THEN Append(acc, fresh)
             ELSE [acc EXCEPT ![CHOOSE n \in hit : TRUE] =
                     [@ EXCEPT !.columns = Append(@, r.column_name),
                               !.ordinal_positions = Append(@, r.ordinal_position)]])

\* PostgresExtractor.list_primary_keys: table_constraints joined with
\* key_column_usage on the constraint name and the schema
list_primary_keys(c, table_schema, table_name) ==
  LET Keep(kcu) ==
        \E n \in 1..Len(c.tcrows) :
          LET tc == c.tcrows[n]
          IN  /\ tc.constraint_name = kcu.constraint_name
              /\ tc.table_schema = kcu.table_schema
              /\ tc.constraint_type = "PRIMARY KEY"
              /\ tc.table_schema = table_schema
              /\ tc.table_name = table_name
      rows == SelectSeq(c.kcurows, Keep)
      sorted == SortByKey(rows, [n \in 1..Len(rows) |-> << rows[n].ordinal_position >>])
  IN  GroupPrimaryKeys(sorted, << >>)

\* zip(a, b)
Zip(a, b) ==
  [n \in 1..(IF Len(a) < Len(b) THEN Len(a) ELSE Len(b)) |-> << a[n], b[n] >>]

RECURSIVE GroupForeignKeys(_, _)
\* the loop building fks in list_foreign_keys
GroupForeignKeys(rows, acc) ==
  IF rows = << >> THEN acc
  ELSE LET r == Head(rows)
           hit == {n \in 1..Len(acc) : acc[n].constraint_name = r.constraint_name}
           fresh == [constraint_name |-> r.constraint_name,
                     columns |-> << r.src_col >>,
                     referenced_schema |-> r.tgt_schema,
                     referenced_table |-> r.tgt_table,
                     referenced_columns |-> << r.tgt_col >>,
                     column_pairs |-> << >>]
       IN  GroupForeignKeys(Tail(rows),
             IF hit = {} THEN Append(acc, fresh)
             ELSE [acc EXCEPT ![CHOOSE n \in hit : TRUE] =
                     [@ EXCEPT !.columns = Append(@, r.src_col),
                               !.referenced_columns = Append(@, r.tgt_col)]])

\* faulty variant of list_foreign_keys: the query has no ORDER BY, the rows come
\* as the catalog holds them
list_foreign_keys_Unordered(c, table_schema, table_name) ==
  LET Keep(r) == r.src_schema = table_schema /\ r.src_table = table_name
      fks == GroupForeignKeys(SelectSeq(c.fkrows, Keep), << >>)
  IN  [n \in 1..Len(fks) |->
         [fks[n] EXCEPT !.column_pairs = Zip(fks[n].columns, fks[n].referenced_columns)]]

\* PostgresExtractor.list_foreign_keys
list_foreign_keys(c, table_schema, table_name) ==
  LET Keep(r) == r.src_schema = table_schema /\ r.src_table = table_name
      rows == SelectSeq(c.fkrows, Keep)
      sorted == SortByKey(rows,
                  [n \in 1..Len(rows) |-> Codes(rows[n].constraint_name) \o << 0, rows[n].position >>])
      fks == GroupForeignKeys(sorted, << >>)
  IN  [n \in 1..Len(fks) |->
         [fks[n] EXCEPT !.column_pairs = Zip(fks[n].columns, fks[n].referenced_columns)]]

(* ------------------------------------------------------------------ *)
(* The metadata store                                                  *)
(* ------------------------------------------------------------------ *)

\* no rows: the content of an empty store, and of a fresh transaction's writes
NoRows ==
  [meta_databases |-> {}, meta_tables |-> {}, meta_columns |-> {},
   meta_primary_keys |-> {}, meta_primary_key_columns |-> {},
   meta_foreign_keys |-> {}, meta_foreign_key_columns |-> {}]

\* the id sequences of the five tables with a surrogate key
NoIds ==
  [meta_databases |-> 0, meta_tables |-> 0, meta_columns |-> 0,
   meta_primary_keys |-> 0, meta_foreign_keys |-> 0]

\* the rows of a and of b
RowsUnion(a, b) ==
  [meta_databases |-> a.meta_databases \cup b.meta_databases,
   meta_tables |-> a.meta_tables \cup b.meta_tables,
   meta_columns |-> a.meta_columns \cup b.meta_columns,
   meta_primary_keys |-> a.meta_primary_keys \cup b.meta_primary_keys,
   meta_primary_key_columns |-> a.meta_primary_key_columns \cup b.meta_primary_key_columns,
   meta_foreign_keys |-> a.meta_foreign_keys \cup b.meta_foreign_keys,
   meta_foreign_key_columns |-> a.meta_foreign_key_columns \cup b.meta_foreign_key_columns]

\* DELETE FROM meta_tables of the rows with an id in ids; ON DELETE CASCADE
\* removes the columns, keys and key columns that hang on them
CascadeDelete(st, ids) ==
  LET tabs == {t \in st.meta_tables : t.id \notin ids}
      cols == {c \in st.meta_columns : c.table_id \notin ids}
      pks  == {k \in st.meta_primary_keys : k.table_id \notin ids}
      fks  == {k \in st.meta_foreign_keys :
                 k.table_id \notin ids /\ k.referenced_table_id \notin ids}
      colIds == {c.id : c \in cols}
      pkIds  == {k.id : k \in pks}
      fkIds  == {k.id : k \in fks}
  IN  [st EXCEPT
         !.meta_tables = tabs,
         !.meta_columns = cols,
         !.meta_primary_keys = pks,
         !.meta_primary_key_columns =
            {r \in @ : r.pk_id \in pkIds /\ r.column_id \in colIds},
         !.meta_foreign_keys = fks,
         !.meta_foreign_key_columns =
            {r \in @ : r.fk_id \in fkIds /\ r.column_id \in colIds
                       /\ r.referenced_column_id \in colIds}]

\* a transaction that has written nothing
NoTx == [open |-> FALSE, ins |-> NoRows, del |-> {}, scan |-> {}]

\* the locals of an operation
NoLocals ==
  [database_id |-> 0, table_id |-> 0,
   table_id_by_fq |-> << >>, column_id_by_fq_and_name |-> << >>]

NoSnap ==
  [tables |-> << >>, per_table_columns |-> << >>,
   per_table_pks |-> << >>, per_table_fks |-> << >>]

\* d[k] = v on a dict (a sequence of items in insertion order)
DictPut(d, k, v) ==
  IF \E n \in 1..Len(d) : d[n].key = k
  THEN [n \in 1..Len(d) |-> IF d[n].key = k THEN [key |-> k, val |-> v] ELSE d[n]]
  ELSE Append(d, [key |-> k, val |-> v])

\* f[k] = v on a lookup map
MapPut(f, k, v) == (k :> v) @@ f

Ok(v) == [ok |-> TRUE, err |-> "", val |-> v]

Raise(e) == [ok |-> FALSE, err |-> e, val |-> << >>]

NoResult == [ok |-> FALSE, err |-> "pending", val |-> << >>]

VARIABLES
  store,    \* the committed rows of the metadata store
  ids,      \* the last value of each id sequence of the store
  runs,     \* the number of writing operations started
  pc,       \* where each process is in its operation
  op,       \* the operation each process runs
  dbname,   \* its database name argument
  arg,      \* list_columns' table argument
  cat,      \* the catalog of the source database `dbname` during the operation
  extConn,  \* whether the process's extractor holds a source connection
  snap,     \* tables, per_table_columns, per_table_pks, per_table_fks of rescan_schema
  idx,      \* the position of the loop the process is in
  tx,       \* the process's store transaction: its uncommitted writes
  loc,      \* database_id, table_id_by_fq, column_id_by_fq_and_name, table_id
  ret,      \* what the operation returned or raised
  pre,      \* history: the committed store and the sequences when the operation was called
  seen,     \* history: the committed stores there have been during a read operation
  last      \* history: per database name, the snapshot of the last committed rescan

\* the metadata store and the operations of MetaRepository on it
main ==
  << store, ids, runs, pc, op, dbname, arg, cat, extConn, snap, idx, tx, loc, ret,
     pre, seen, last >>

\* the engine cache of app.db.connections and the calls of get_engine
VARIABLES
  _engines,  \* the cache: logical database name -> Engine
  created,   \* history: the (name, engine) of every create_engine call
  gpc,       \* where each thread is in get_engine
  gname,     \* its dbname argument
  engine,    \* its local `engine`
  gret,      \* the Engine get_engine returned to it
  gcalls     \* the number of get_engine calls started

\* QueryService, the app.run_history table and the run in progress
VARIABLES
  history,   \* the rows of app.run_history
  hseq,      \* the last value of its id sequence
  svc,       \* the service: whether meta_repo and query_repo are set, and on_logged
  run,       \* QueryService.run: its position, arguments and locals
  qruns      \* the number of runs started

\* a PostgresExtractor object and the connections checked out of the pool
VARIABLES
  ext,       \* the extractor: conn, cursor, its position and who called connect/close
  pool       \* out: the connections checked out and not closed; seq: how many were checked out

side ==
  << _engines, created, gpc, gname, engine, gret, gcalls, history, hseq, svc, run, qruns,
     ext, pool >>

vars == << main, side >>

\* history_entry = None
None == [id |-> 0]

\* no run of QueryService.run yet.  `pre` is the history table when the run was
\* called, `cbs` the number of calls of on_logged, `logfail` whether
\* get_database_id or add_history raised, `repos` whether the service had both
\* repositories
NoRun ==
  [pc |-> "idle", dbname |-> "", sql |-> "", ok |-> TRUE, err |-> "", dt |-> 0,
   db_id |-> 0, history_entry |-> None, cbs |-> 0, logfail |-> FALSE, repos |-> TRUE,
   ret |-> [raised |-> FALSE, ok |-> TRUE, duration_ms |-> 0, error |-> ""], pre |-> {}]

\* PostgresExtractor.__init__: self.conn = None, self.cursor = None (0 is None);
\* pc "none": no extractor object yet
NoExtractor == [conn |-> 0, cursor |-> 0, raw |-> 0, pc |-> "none", caller |-> "none"]

\* the module has just been imported (`_engines: Dict[str, Engine] = {}`) and
\* main() has built QueryService(meta_repo=meta_repo, query_repo=query_repo)
InitSide ==
  /\ _engines = << >>
  /\ created = {}
  /\ gpc = [t \in Procs |-> "idle"]
  /\ gname = [t \in Procs |-> ""]
  /\ engine = [t \in Procs |-> 0]
  /\ gret = [t \in Procs |-> 0]
  /\ gcalls = 0
  /\ history = {}
  /\ hseq = 0
  /\ svc = [repos |-> TRUE, on_logged |-> "none"]
  /\ run = NoRun
  /\ qruns = 0
  /\ ext = NoExtractor
  /\ pool = [out |-> {}, seq |-> 0]

\* nothing scanned yet.  `again` tells that the last committed rescan found the
\* snapshot the committed rescan before it had found
NoScan == [scanned |-> FALSE, snap |-> NoSnap, again |-> FALSE]

NoPre == [store |-> NoRows, ids |-> NoIds]

\* no operation has been called yet
InitProcs ==
  /\ runs = 0
  /\ pc = [p \in Procs |-> "idle"]
  /\ op = [p \in Procs |-> "none"]
  /\ dbname = [p \in Procs |-> ""]
  /\ arg = [p \in Procs |-> << >>]
  /\ cat = [p \in Procs |-> CatEmpty]
  /\ extConn = [p \in Procs |-> FALSE]
  /\ snap = [p \in Procs |-> NoSnap]
  /\ idx = [p \in Procs |-> 0]
  /\ tx = [p \in Procs |-> NoTx]
  /\ loc = [p \in Procs |-> NoLocals]
  /\ ret = [p \in Procs |-> NoResult]
  /\ pre = [p \in Procs |-> NoPre]
  /\ seen = [p \in Procs |-> {}]
  /\ last = [d \in DbNames |-> NoScan]
  /\ InitSide

\* the metadata schema has just been deployed: no rows
Init ==
  /\ store = NoRows
  /\ ids = NoIds
  /\ InitProcs

\* the store after add_database("shop")
InitConc ==
  /\ store = [NoRows EXCEPT !.meta_databases = {[id |-> 1, name |-> "shop"]}]
  /\ ids = [NoIds EXCEPT !.meta_databases = 1]
  /\ InitProcs

(* ------------------------------------------------------------------ *)
(* Calls                                                               *)
(* ------------------------------------------------------------------ *)

Callable(p) == pc[p] \in {"idle", "done"}

\* the operations that write to the store
Writes == {"add_database", "rescan_schema"}

\* the process starts operation o: its locals are those of a fresh call
Enter(p, o, d, t, c, at) ==
  /\ op' = [op EXCEPT ![p] = o]
  /\ dbname' = [dbname EXCEPT ![p] = d]
  /\ arg' = [arg EXCEPT ![p] = t]
  /\ cat' = [cat EXCEPT ![p] = c]
  /\ snap' = [snap EXCEPT ![p] = NoSnap]
  /\ idx' = [idx EXCEPT ![p] = 0]
  /\ loc' = [loc EXCEPT ![p] = NoLocals]
  /\ ret' = [ret EXCEPT ![p] = NoResult]
  /\ pre' = [pre EXCEPT ![p] = IF o \in Writes THEN [store |-> store, ids |-> ids] ELSE NoPre]
  /\ seen' = [seen EXCEPT ![p] = IF o \in Writes THEN {} ELSE {store}]
  /\ pc' = [pc EXCEPT ![p] = at]
  /\ UNCHANGED << store, ids, extConn, tx, last >>

\* the operation ends: it returns or raises r, and its locals are gone
Leave(p, r) ==
  /\ pc' = [pc EXCEPT ![p] = "done"]
  /\ ret' = [ret EXCEPT ![p] = r]
  /\ snap' = [snap EXCEPT ![p] = NoSnap]
  /\ idx' = [idx EXCEPT ![p] = 0]
  /\ loc' = [loc EXCEPT ![p] = NoLocals]
  /\ cat' = [cat EXCEPT ![p] = CatEmpty]

\* rescan_schema(dbname) is called; c is what the source database holds
RescanCall(p, d, c) ==
  /\ Callable(p)
  /\ runs < MaxRuns
  /\ runs' = runs + 1
  /\ Enter(p, "rescan_schema", d, << >>, c, "connect")
  /\ UNCHANGED side

(* ------------------------------------------------------------------ *)
(* rescan_schema, step 1: reading the source                           *)
(* ------------------------------------------------------------------ *)

\* `with ext:` -> BaseExtractor.__enter__ -> PostgresExtractor.connect
Connect(p) ==
  /\ pc[p] = "connect"
  /\ ~extConn[p]
  /\ extConn' = [extConn EXCEPT ![p] = TRUE]
  /\ pc' = [pc EXCEPT ![p] = "list_tables"]
  /\ UNCHANGED << store, ids, runs, op, dbname, arg, cat, snap, idx, tx, loc, ret, pre, seen, last >>
  /\ UNCHANGED side

\* connect raises (source unreachable): __enter__ did not return, nothing to close
ConnectFail(p) ==
  /\ pc[p] = "connect"
  /\ Leave(p, Raise("ConnectionError"))
  /\ UNCHANGED << store, ids, runs, op, dbname, arg, extConn, tx, pre, seen, last >>
  /\ UNCHANGED side

\* tables = ext.list_tables()
ListTables(p) ==
  /\ pc[p] = "list_tables"
  /\ LET tables == list_tables(cat[p], NoSchemas, FALSE)
     IN  /\ snap' = [snap EXCEPT ![p].tables = tables]
         /\ idx' = [idx EXCEPT ![p] = 1]
         /\ pc' = [pc EXCEPT ![p] = IF tables = << >> THEN "ext_exit" ELSE "list_columns"]
  /\ UNCHANGED << store, ids, runs, op, dbname, arg, cat, extConn, tx, loc, ret, pre, seen, last >>
  /\ UNCHANGED side

\* per_table_columns[fq] = ext.list_columns(...)
ListColumns(p) ==
  /\ pc[p] = "list_columns"
  /\ LET t == snap[p].tables[idx[p]]
         fq == _fq(t.schema, t.table_name)
     IN  snap' = [snap EXCEPT ![p].per_table_columns =
                    DictPut(@, fq, list_columns(cat[p], t.schema, t.table_name))]
  /\ pc' = [pc EXCEPT ![p] = "list_primary_keys"]
  /\ UNCHANGED << store, ids, runs, op, dbname, arg, cat, extConn, idx, tx, loc, ret, pre, seen, last >>
  /\ UNCHANGED side

\* per_table_pks[fq] = ext.list_primary_keys(...)
ListPrimaryKeys(p) ==
  /\ pc[p] = "list_primary_keys"
  /\ LET t == snap[p].tables[idx[p]]
         fq == _fq(t.schema, t.table_name)
     IN  snap' = [snap EXCEPT ![p].per_table_pks =
                    DictPut(@, fq, list_primary_keys(cat[p], t.schema, t.table_name))]
  /\ pc' = [pc EXCEPT ![p] = "list_foreign_keys"]
  /\ UNCHANGED << store, ids, runs, op, dbname, arg, cat, extConn, idx, tx, loc, ret, pre, seen, last >>
  /\ UNCHANGED side

\* per_table_fks[fq] = ext.list_foreign_keys(...), and the next table
ListForeignKeys(p) ==
  /\ pc[p] = "list_foreign_keys"
  /\ LET t == snap[p].tables[idx[p]]
         fq == _fq(t.schema, t.table_name)
     IN  snap' = [snap EXCEPT ![p].per_table_fks =
                    DictPut(@, fq, list_foreign_keys(cat[p], t.schema, t.table_name))]
  /\ idx' = [idx EXCEPT ![p] = @ + 1]
  /\ pc' = [pc EXCEPT ![p] =
              IF idx[p] = Len(snap[p].tables) THEN "ext_exit" ELSE "list_columns"]
  /\ UNCHANGED << store, ids, runs, op, dbname, arg, cat, extConn, tx, loc, ret, pre, seen, last >>
  /\ UNCHANGED side

\* PostgresExtractor.close
close(p) == extConn' = [extConn EXCEPT ![p] = FALSE]

\* faulty variant of ExtractFail: the database row was registered and committed
\* before the source was read
ExtractFail_Registered(p) ==
  /\ pc[p] \in {"list_tables", "list_columns", "list_primary_keys", "list_foreign_keys"}
  /\ close(p)
  /\ Leave(p, Raise("DatabaseError"))
  /\ IF \E r \in store.meta_databases : r.name = dbname[p]
     THEN UNCHANGED << store, ids >>
     ELSE /\ ids' = [ids EXCEPT !.meta_databases = @ + 1]
          /\ store' = [store EXCEPT !.meta_databases =
                         @ \cup {[id |-> ids.meta_databases + 1, name |-> dbname[p]]}]
  /\ UNCHANGED << runs, op, dbname, arg, tx, pre, seen, last >>
  /\ UNCHANGED side

\* a catalog query raises: __exit__ closes the extractor and the error leaves
\* rescan_schema
ExtractFail(p) ==
  /\ pc[p] \in {"list_tables", "list_columns", "list_primary_keys", "list_foreign_keys"}
  /\ close(p)
  /\ Leave(p, Raise("DatabaseError"))
  /\ UNCHANGED << store, ids, runs, op, dbname, arg, tx, pre, seen, last >>
  /\ UNCHANGED side

\* faulty variant of ExtractExit: the store transaction is opened inside the
\* with block, the extractor still connected
ExtractExit_KeepOpen(p) ==
  /\ pc[p] = "ext_exit"
  /\ pc' = [pc EXCEPT ![p] = "begin"]
  /\ UNCHANGED << store, ids, runs, op, dbname, arg, cat, extConn, snap, idx, tx, loc, ret, pre, seen, last >>
  /\ UNCHANGED side

\* the end of the with block: BaseExtractor.__exit__ -> close
ExtractExit(p) ==
  /\ pc[p] = "ext_exit"
  /\ close(p)
  /\ pc' = [pc EXCEPT ![p] = "begin"]
  /\ UNCHANGED << store, ids, runs, op, dbname, arg, cat, snap, idx, tx, loc, ret, pre, seen, last >>
  /\ UNCHANGED side

(* ------------------------------------------------------------------ *)
(* Store transactions                                                  *)
(* ------------------------------------------------------------------ *)

Others(p) == Procs \ {p}

\* `with self.engine.begin() as conn:` enters the block
Begin(p) ==
  /\ pc[p] = "begin"
  /\ tx' = [tx EXCEPT ![p] = [NoTx EXCEPT !.open = TRUE]]
  /\ pc' = [pc EXCEPT ![p] = "upsert"]
  /\ UNCHANGED << store, ids, runs, op, dbname, arg, cat, extConn, snap, idx, loc, ret, pre, seen, last >>
  /\ UNCHANGED side

\* faulty variant of Rollback: the statements were run in autocommit, what was
\* written before the exception stays
Rollback_KeepWrites(p, e) ==
  /\ tx' = [tx EXCEPT ![p] = NoTx]
  /\ Leave(p, Raise(e))
  /\ store' = RowsUnion(CascadeDelete(store, tx[p].del), tx[p].ins)

\* an exception leaves the `with self.engine.begin()` block: ROLLBACK, and the
\* exception leaves the operation
Rollback(p, e) ==
  /\ tx' = [tx EXCEPT ![p] = NoTx]
  /\ Leave(p, Raise(e))
  /\ UNCHANGED store

\* what follows _upsert_database in the operation
AfterUpsert(p) == IF op[p] = "add_database" THEN "commit" ELSE "delete"

\* faulty variant of UpsertInsert: a plain INSERT, without ON CONFLICT and
\* without a unique index on the name
UpsertInsert_Plain(p) ==
  /\ pc[p] = "upsert"
  /\ LET id == ids.meta_databases + 1
     IN  /\ ids' = [ids EXCEPT !.meta_databases = id]
         /\ tx' = [tx EXCEPT ![p].ins.meta_databases =
                     @ \cup {[id |-> id, name |-> dbname[p]]}]
         /\ loc' = [loc EXCEPT ![p].database_id = id]
         /\ pc' = [pc EXCEPT ![p] = AfterUpsert(p)]
  /\ UNCHANGED << store, runs, op, dbname, arg, cat, extConn, snap, idx, ret, pre, seen, last >>
  /\ UNCHANGED side

\* faulty variant of UpsertInsert: an exists-check followed by an insert, which
\* does not wait for a transaction that is inserting the same name
UpsertInsert_CheckThenInsert(p) ==
  /\ pc[p] = "upsert"
  /\ IF \E r \in store.meta_databases : r.name = dbname[p]
     THEN /\ pc' = [pc EXCEPT ![p] = "upsert_select"]
          /\ UNCHANGED << ids, tx, loc >>
     ELSE LET id == ids.meta_databases + 1
          IN  /\ ids' = [ids EXCEPT !.meta_databases = id]
              /\ tx' = [tx EXCEPT ![p].ins.meta_databases =
                          @ \cup {[id |-> id, name |-> dbname[p]]}]
              /\ loc' = [loc EXCEPT ![p].database_id = id]
              /\ pc' = [pc EXCEPT ![p] = AfterUpsert(p)]
  /\ UNCHANGED << store, runs, op, dbname, arg, cat, extConn, snap, idx, ret, pre, seen, last >>
  /\ UNCHANGED side

\* _upsert_database: INSERT INTO meta_databases ... ON CONFLICT (name) DO NOTHING
\* RETURNING id.  The statement waits for a transaction that inserted the same name
\* and has not ended yet.
UpsertInsert(p) ==
  /\ pc[p] = "upsert"
  /\ \A q \in Others(p) : \A r \in tx[q].ins.meta_databases : r.name # dbname[p]
  /\ IF \E r \in store.meta_databases : r.name = dbname[p]
     THEN /\ pc' = [pc EXCEPT ![p] = "upsert_select"]
          /\ UNCHANGED << ids, tx, loc >>
     ELSE LET id == ids.meta_databases + 1
          IN  /\ ids' = [ids EXCEPT !.meta_databases = id]
              /\ tx' = [tx EXCEPT ![p].ins.meta_databases =
                          @ \cup {[id |-> id, name |-> dbname[p]]}]
              /\ loc' = [loc EXCEPT ![p].database_id = id]
              /\ pc' = [pc EXCEPT ![p] = AfterUpsert(p)]
  /\ UNCHANGED << store, runs, op, dbname, arg, cat, extConn, snap, idx, ret, pre, seen, last >>
  /\ UNCHANGED side

\* SELECT id FROM meta_databases WHERE name = :n, as the process's connection
\* sees the table: the committed rows and the rows of its own transaction
_get_database_id(p) ==
  {r.id : r \in {r \in store.meta_databases \cup tx[p].ins.meta_databases :
                   r.name = dbname[p]}}

\* faulty variant of UpsertSelect: the SELECT has no WHERE clause, the id of
\* any registered database is taken
UpsertSelect_AnyDatabase(p) ==
  /\ pc[p] = "upsert_select"
  /\ \E r \in store.meta_databases \cup tx[p].ins.meta_databases :
       /\ loc' = [loc EXCEPT ![p].database_id = r.id]
       /\ pc' = [pc EXCEPT ![p] = AfterUpsert(p)]
       /\ UNCHANGED << store, tx, ret, snap, idx, cat >>
  /\ UNCHANGED << ids, runs, op, dbname, arg, extConn, pre, seen, last >>
  /\ UNCHANGED side

\* _upsert_database, when the insert returned no row: _get_database_id
UpsertSelect(p) ==
  /\ pc[p] = "upsert_select"
  /\ IF _get_database_id(p) = {}
     THEN Rollback(p, "ValueError")
     ELSE /\ loc' = [loc EXCEPT ![p].database_id = CHOOSE id \in _get_database_id(p) : TRUE]
          /\ pc' = [pc EXCEPT ![p] = AfterUpsert(p)]
          /\ UNCHANGED << store, tx, ret, snap, idx, cat >>
  /\ UNCHANGED << ids, runs, op, dbname, arg, extConn, pre, seen, last >>
  /\ UNCHANGED side

\* faulty variant of DeleteScan: DELETE FROM meta_tables without the WHERE clause
DeleteScan_AllDatabases(p) ==
  /\ pc[p] = "delete"
  /\ tx' = [tx EXCEPT ![p].scan = {t.id : t \in store.meta_tables}]
  /\ pc' = [pc EXCEPT ![p] = "delete_wait"]
  /\ UNCHANGED << store, ids, runs, op, dbname, arg, cat, extConn, snap, idx, loc, ret, pre, seen, last >>
  /\ UNCHANGED side

\* DELETE FROM meta_tables WHERE database_id = :db_id starts: the rows the
\* statement sees
DeleteScan(p) ==
  /\ pc[p] = "delete"
  /\ tx' = [tx EXCEPT ![p].scan =
              {t.id : t \in {t \in store.meta_tables : t.database_id = loc[p].database_id}}]
  /\ pc' = [pc EXCEPT ![p] = "delete_wait"]
  /\ UNCHANGED << store, ids, runs, op, dbname, arg, cat, extConn, snap, idx, loc, ret, pre, seen, last >>
  /\ UNCHANGED side

\* faulty variant of DeleteApply: the old tables are not cleared
DeleteApply_KeepOld(p) ==
  /\ pc[p] = "delete_wait"
  /\ tx' = [tx EXCEPT ![p].del = {}, ![p].scan = {}]
  /\ idx' = [idx EXCEPT ![p] = 1]
  /\ pc' = [pc EXCEPT ![p] = IF snap[p].tables = << >> THEN "commit" ELSE "insert_tables"]
  /\ UNCHANGED << store, ids, runs, op, dbname, arg, cat, extConn, snap, loc, ret, pre, seen, last >>
  /\ UNCHANGED side

\* faulty variant of DeleteApply: with no table to insert, nothing is deleted
\* (`if not tables: return` taken for "nothing to do")
DeleteApply_NothingToDo(p) ==
  /\ pc[p] = "delete_wait"
  /\ \A q \in Others(p) : tx[q].del \cap tx[p].scan = {}
  /\ tx' = [tx EXCEPT ![p].del = IF snap[p].tables = << >> THEN {}
                                 ELSE {t.id : t \in store.meta_tables} \cap tx[p].scan,
                      ![p].scan = {}]
  /\ idx' = [idx EXCEPT ![p] = 1]
  /\ pc' = [pc EXCEPT ![p] = IF snap[p].tables = << >> THEN "commit" ELSE "insert_tables"]
  /\ UNCHANGED << store, ids, runs, op, dbname, arg, cat, extConn, snap, loc, ret, pre, seen, last >>
  /\ UNCHANGED side

\* the DELETE ends.  It waits while another transaction holds one of its rows
\* (has deleted it and not ended); a row that transaction's commit removed is
\* skipped, and rows committed after the statement started are not seen.
DeleteApply(p) ==
  /\ pc[p] = "delete_wait"
  /\ \A q \in Others(p) : tx[q].del \cap tx[p].scan = {}
  /\ tx' = [tx EXCEPT ![p].del = {t.id : t \in store.meta_tables} \cap tx[p].scan,
                      ![p].scan = {}]
  /\ idx' = [idx EXCEPT ![p] = 1]
  /\ pc' = [pc EXCEPT ![p] = IF snap[p].tables = << >> THEN "commit" ELSE "insert_tables"]
  /\ UNCHANGED << store, ids, runs, op, dbname, arg, cat, extConn, snap, loc, ret, pre, seen, last >>
  /\ UNCHANGED side

\* UNIQUE (database_id, name) of meta_tables: the name is taken by a row the
\* transaction sees
TableNameTaken(p, db_id, name) ==
  \/ \E r \in store.meta_tables :
        r.database_id = db_id /\ r.name = name /\ r.id \notin tx[p].del
  \/ \E r \in tx[p].ins.meta_tables : r.database_id = db_id /\ r.name = name

\* UNIQUE (database_id, name) of meta_tables: the insert waits for a transaction
\* that inserted or deleted a row of that name and has not ended
TableNameWait(p, db_id, name) ==
  \E q \in Others(p) :
    \/ \E r \in tx[q].ins.meta_tables : r.database_id = db_id /\ r.name = name
    \/ \E r \in store.meta_tables :
          r.database_id = db_id /\ r.name = name /\ r.id \in tx[q].del

\* 2.1: INSERT INTO meta_tables (database_id, name) ... RETURNING id, for
\* tables[idx]; table_id_by_fq[fq] = table_id
InsertTable(p) ==
  /\ pc[p] = "insert_tables"
  /\ LET t == snap[p].tables[idx[p]]
         fq == _fq(t.schema, t.table_name)
         id == ids.meta_tables + 1
     IN  /\ ~TableNameWait(p, loc[p].database_id, fq)
         /\ IF TableNameTaken(p, loc[p].database_id, fq)
            THEN /\ Rollback(p, "IntegrityError")
                 /\ UNCHANGED ids
            ELSE /\ ids' = [ids EXCEPT !.meta_tables = id]
                 /\ tx' = [tx EXCEPT ![p].ins.meta_tables =
                             @ \cup {[id |-> id, database_id |-> loc[p].database_id,
                                      name |-> fq]}]
                 /\ loc' = [loc EXCEPT ![p].table_id_by_fq = MapPut(@, fq, id),
                                       ![p].table_id = id]
                 /\ idx' = [idx EXCEPT ![p] = IF @ = Len(snap[p].tables) THEN 1 ELSE @ + 1]
                 /\ pc' = [pc EXCEPT ![p] =
                             IF idx[p] = Len(snap[p].tables)
                             THEN "insert_columns" ELSE "insert_tables"]
                 /\ UNCHANGED << store, ret, snap, cat >>
  /\ UNCHANGED << runs, op, dbname, arg, extConn, pre, seen, last >>
  /\ UNCHANGED side

\* the state the insert loops of one dict item work on: the transaction's new
\* rows, the id sequences, column_id_by_fq_and_name, and the exception raised
Work(p) ==
  [ins |-> tx[p].ins, ids |-> ids, cmap |-> loc[p].column_id_by_fq_and_name, err |-> ""]

RECURSIVE InsertColumnRows(_, _, _, _)
\* 2.2: `for c in cols:` INSERT INTO meta_columns ... RETURNING id
InsertColumnRows(cols, fq, table_id, w) ==
  IF cols = << >> THEN w
  ELSE LET c == Head(cols)
           id == w.ids.meta_columns + 1
       IN  InsertColumnRows(Tail(cols), fq, table_id,
             [w EXCEPT !.ids.meta_columns = id,
                       !.ins.meta_columns =
                          @ \cup {[id |-> id, table_id |-> table_id, name |-> c.name,
                                   data_type |-> c.data_type]},
                       !.cmap = MapPut(@, << fq, c.name >>, id)])

RECURSIVE InsertPkColumnRows_IdAsOrdinal(_, _, _, _)
\* faulty variant of InsertPkColumnRows: the column's id is bound to
\* :ordinal_position
InsertPkColumnRows_IdAsOrdinal(pairs, fq, pk_id, w) ==
  IF pairs = << >> THEN w
  ELSE LET col_name == Head(pairs)[1]
       IN  IF << fq, col_name >> \notin DOMAIN w.cmap
           THEN [w EXCEPT !.err = "KeyError"]
           ELSE InsertPkColumnRows_IdAsOrdinal(Tail(pairs), fq, pk_id,
                  [w EXCEPT !.ins.meta_primary_key_columns =
                              @ \cup {[pk_id |-> pk_id, column_id |-> w.cmap[<< fq, col_name >>],
                                       ordinal_position |-> w.cmap[<< fq, col_name >>]]}])

\* faulty variant of InsertPkColumnRows: only the first member column of the
\* key is stored
InsertPkColumnRows_FirstOnly(pairs, fq, pk_id, w) ==
  IF pairs = << >> THEN w
  ELSE LET col_name == Head(pairs)[1]
           ord_pos == Head(pairs)[2]
       IN  IF << fq, col_name >> \notin DOMAIN w.cmap
           THEN [w EXCEPT !.err = "KeyError"]
           ELSE [w EXCEPT !.ins.meta_primary_key_columns =
                            @ \cup {[pk_id |-> pk_id, column_id |-> w.cmap[<< fq, col_name >>],
                                     ordinal_position |-> ord_pos]}]

RECURSIVE InsertPkColumnRows(_, _, _, _)
\* `for col_name, ord_pos in zip(cols, ords):` INSERT INTO meta_primary_key_columns
InsertPkColumnRows(pairs, fq, pk_id, w) ==
  IF pairs = << >> THEN w
  ELSE LET col_name == Head(pairs)[1]
           ord_pos == Head(pairs)[2]
       IN  IF << fq, col_name >> \notin DOMAIN w.cmap
           THEN [w EXCEPT !.err = "KeyError"]
           ELSE InsertPkColumnRows(Tail(pairs), fq, pk_id,
                  [w EXCEPT !.ins.meta_primary_key_columns =
                              @ \cup {[pk_id |-> pk_id, column_id |-> w.cmap[<< fq, col_name >>],
                                       ordinal_position |-> ord_pos]}])

RECURSIVE InsertPrimaryKeyRows(_, _, _, _)
\* 2.3: `for pk in pk_defs:` INSERT INTO meta_primary_keys, then its columns
InsertPrimaryKeyRows(pk_defs, fq, table_id, w) ==
  IF pk_defs = << >> \/ w.err # "" THEN w
  ELSE LET pk == Head(pk_defs)
           pk_id == w.ids.meta_primary_keys + 1
           w1 == [w EXCEPT !.ids.meta_primary_keys = pk_id,
                           !.ins.meta_primary_keys =
                              @ \cup {[id |-> pk_id, table_id |-> table_id]}]
       IN  InsertPrimaryKeyRows(Tail(pk_defs), fq, table_id,
             InsertPkColumnRows(Zip(pk.columns, pk.ordinal_positions), fq, pk_id, w1))

\* faulty variant of PairsOf: the flat lists are zipped whenever they are not
\* empty, column_pairs being the fallback
PairsOf_FlatFirst(fk) ==
  IF fk.columns # << >> /\ fk.referenced_columns # << >>
  THEN Zip(fk.columns, fk.referenced_columns)
  ELSE fk.column_pairs

\* pairs = fk.get("column_pairs") or list(zip(fk["columns"], fk["referenced_columns"]))
PairsOf(fk) ==
  IF "column_pairs" \in DOMAIN fk /\ fk.column_pairs # << >> THEN fk.column_pairs
  ELSE Zip(fk.columns, fk.referenced_columns)

RECURSIVE InsertFkColumnRows_ZeroBased(_, _, _, _, _, _)
\* faulty variant of InsertFkColumnRows: enumerate(pairs) without start=1
InsertFkColumnRows_ZeroBased(pairs, n, src_fq, tgt_fq, fk_id, w) ==
  IF pairs = << >> THEN w
  ELSE LET src_col == Head(pairs)[1]
           tgt_col == Head(pairs)[2]
       IN  IF << src_fq, src_col >> \notin DOMAIN w.cmap
              \/ << tgt_fq, tgt_col >> \notin DOMAIN w.cmap
           THEN [w EXCEPT !.err = "KeyError"]
           ELSE InsertFkColumnRows_ZeroBased(Tail(pairs), n + 1, src_fq, tgt_fq, fk_id,
                  [w EXCEPT !.ins.meta_foreign_key_columns =
                              @ \cup {[fk_id |-> fk_id,
                                       column_id |-> w.cmap[<< src_fq, src_col >>],
                                       referenced_column_id |-> w.cmap[<< tgt_fq, tgt_col >>],
                                       ordinal_position |-> n - 1]}])

RECURSIVE InsertFkColumnRows_SkipMissing(_, _, _, _, _, _)
\* faulty variant of InsertFkColumnRows: a pair naming a column that is not in
\* column_id_by_fq_and_name is skipped (`.get(...)` and `continue`)
InsertFkColumnRows_SkipMissing(pairs, n, src_fq, tgt_fq, fk_id, w) ==
  IF pairs = << >> THEN w
  ELSE LET src_col == Head(pairs)[1]
           tgt_col == Head(pairs)[2]
       IN  IF << src_fq, src_col >> \notin DOMAIN w.cmap
              \/ << tgt_fq, tgt_col >> \notin DOMAIN w.cmap
           THEN InsertFkColumnRows_SkipMissing(Tail(pairs), n + 1, src_fq, tgt_fq, fk_id, w)
           ELSE InsertFkColumnRows_SkipMissing(Tail(pairs), n + 1, src_fq, tgt_fq, fk_id,
                  [w EXCEPT !.ins.meta_foreign_key_columns =
                              @ \cup {[fk_id |-> fk_id,
                                       column_id |-> w.cmap[<< src_fq, src_col >>],
                                       referenced_column_id |-> w.cmap[<< tgt_fq, tgt_col >>],
                                       ordinal_position |-> n]}])

RECURSIVE InsertFkColumnRows(_, _, _, _, _, _)
\* `for idx, (src_col, tgt_col) in enumerate(pairs, start=1):`
\* INSERT INTO meta_foreign_key_columns
InsertFkColumnRows(pairs, n, src_fq, tgt_fq, fk_id, w) ==
  IF pairs = << >> THEN w
  ELSE LET src_col == Head(pairs)[1]
           tgt_col == Head(pairs)[2]
       IN  IF << src_fq, src_col >> \notin DOMAIN w.cmap
              \/ << tgt_fq, tgt_col >> \notin DOMAIN w.cmap
           THEN [w EXCEPT !.err = "KeyError"]
           ELSE InsertFkColumnRows(Tail(pairs), n + 1, src_fq, tgt_fq, fk_id,
                  [w EXCEPT !.ins.meta_foreign_key_columns =
                              @ \cup {[fk_id |-> fk_id,
                                       column_id |-> w.cmap[<< src_fq, src_col >>],
                                       referenced_column_id |-> w.cmap[<< tgt_fq, tgt_col >>],
                                       ordinal_position |-> n]}])

RECURSIVE InsertForeignKeyRows_SkipDangling(_, _, _, _)
\* faulty variant of InsertForeignKeyRows: a foreign key whose referenced table
\* is not in table_id_by_fq is skipped (`continue`) instead of raising
InsertForeignKeyRows_SkipDangling(fk_list, src_fq, tmap, w) ==
  IF fk_list = << >> \/ w.err # "" THEN w
  ELSE LET fk == Head(fk_list)
           tgt_fq == _fq(fk.referenced_schema, fk.referenced_table)
           fk_id == w.ids.meta_foreign_keys + 1
       IN  IF tgt_fq \notin DOMAIN tmap
           THEN InsertForeignKeyRows_SkipDangling(Tail(fk_list), src_fq, tmap, w)
           ELSE InsertForeignKeyRows_SkipDangling(Tail(fk_list), src_fq, tmap,
                  InsertFkColumnRows(PairsOf(fk), 1, src_fq, tgt_fq, fk_id,
                    [w EXCEPT !.ids.meta_foreign_keys = fk_id,
                              !.ins.meta_foreign_keys =
                                 @ \cup {[id |-> fk_id, table_id |-> tmap[src_fq],
                                          referenced_table_id |-> tmap[tgt_fq]]}]))

RECURSIVE InsertForeignKeyRows(_, _, _, _)
\* 2.4: `for fk in fk_list:` the referenced table is looked up in table_id_by_fq,
\* then INSERT INTO meta_foreign_keys and its column pairs
InsertForeignKeyRows(fk_list, src_fq, tmap, w) ==
  IF fk_list = << >> \/ w.err # "" THEN w
  ELSE LET fk == Head(fk_list)
           tgt_fq == _fq(fk.referenced_schema, fk.referenced_table)
           fk_id == w.ids.meta_foreign_keys + 1
       IN  IF tgt_fq \notin DOMAIN tmap
           THEN [w EXCEPT !.err = "RuntimeError"]
           ELSE InsertForeignKeyRows(Tail(fk_list), src_fq, tmap,
                  InsertFkColumnRows(PairsOf(fk), 1, src_fq, tgt_fq, fk_id,
                    [w EXCEPT !.ids.meta_foreign_keys = fk_id,
                              !.ins.meta_foreign_keys =
                                 @ \cup {[id |-> fk_id, table_id |-> tmap[src_fq],
                                          referenced_table_id |-> tmap[tgt_fq]]}]))

\* one item of an insert loop is done with the state w: the loop goes on with
\* the next item, or the next loop (or COMMIT) follows, or w's exception rolls back
LoopStep(p, w, items, next) ==
  /\ ids' = w.ids
  /\ IF w.err # ""
     THEN Rollback(p, w.err)
     ELSE /\ tx' = [tx EXCEPT ![p].ins = w.ins]
          /\ loc' = [loc EXCEPT ![p].column_id_by_fq_and_name = w.cmap]
          /\ idx' = [idx EXCEPT ![p] = IF @ = Len(items) THEN 1 ELSE @ + 1]
          /\ pc' = [pc EXCEPT ![p] = IF idx[p] = Len(items) THEN next ELSE @]
          /\ UNCHANGED << store, ret, snap, cat >>
  /\ UNCHANGED << runs, op, dbname, arg, extConn, pre, seen, last >>

\* 2.2: one item of `for fq, cols in per_table_columns.items():`
InsertColumns(p) ==
  /\ pc[p] = "insert_columns"
  /\ LET item == snap[p].per_table_columns[idx[p]]
     IN  LoopStep(p,
           InsertColumnRows(item.val, item.key, loc[p].table_id_by_fq[item.key], Work(p)),
           snap[p].per_table_columns, "insert_pks")
  /\ UNCHANGED side

\* 2.3: one item of `for fq, pk_defs in per_table_pks.items():`
InsertPrimaryKeys(p) ==
  /\ pc[p] = "insert_pks"
  /\ LET item == snap[p].per_table_pks[idx[p]]
     IN  LoopStep(p,
           InsertPrimaryKeyRows(item.val, item.key, loc[p].table_id_by_fq[item.key], Work(p)),
           snap[p].per_table_pks, "insert_fks")
  /\ UNCHANGED side

\* faulty variant of InsertForeignKeys: the foreign keys of a table are resolved
\* against the table-id map as it was when the table itself was inserted (the
\* tables inserted after it are missing)
InsertForeignKeys_WhileInsertingTables(p) ==
  /\ pc[p] = "insert_fks"
  /\ LET item == snap[p].per_table_fks[idx[p]]
         tmap == loc[p].table_id_by_fq
         sofar == [k \in {k \in DOMAIN tmap : tmap[k] <= tmap[item.key]} |-> tmap[k]]
     IN  LoopStep(p,
           InsertForeignKeyRows(item.val, item.key, sofar, Work(p)),
           snap[p].per_table_fks, "commit")
  /\ UNCHANGED side

\* 2.4: one item of `for src_fq, fk_list in per_table_fks.items():`
InsertForeignKeys(p) ==
  /\ pc[p] = "insert_fks"
  /\ LET item == snap[p].per_table_fks[idx[p]]
     IN  LoopStep(p,
           InsertForeignKeyRows(item.val, item.key, loc[p].table_id_by_fq, Work(p)),
           snap[p].per_table_fks, "commit")
  /\ UNCHANGED side

\* faulty variant of StoreFail: the DELETE ran in a transaction of its own, it
\* stays committed when a later statement fails
StoreFail_DeleteCommitted(p) ==
  /\ tx[p].open
  /\ tx' = [tx EXCEPT ![p] = NoTx]
  /\ Leave(p, Raise("OperationalError"))
  /\ store' = CascadeDelete(store, tx[p].del)
  /\ UNCHANGED << ids, runs, op, dbname, arg, extConn, pre, seen, last >>
  /\ UNCHANGED side

\* the store fails a statement of the open transaction, or its COMMIT
StoreFail(p) ==
  /\ tx[p].open
  /\ Rollback(p, "OperationalError")
  /\ UNCHANGED << ids, runs, op, dbname, arg, extConn, pre, seen, last >>
  /\ UNCHANGED side

\* faulty variant of Commit: the rescan cleared the database by deleting its
\* meta_databases row (and what hangs on it) instead of its meta_tables rows
Commit_DropDatabase(p) ==
  /\ pc[p] = "commit"
  /\ store' = RowsUnion(
                CascadeDelete(
                  [store EXCEPT !.meta_databases =
                     {r \in @ : op[p] = "rescan_schema" => r.id # loc[p].database_id}],
                  tx[p].del),
                tx[p].ins)
  /\ tx' = [tx EXCEPT ![p] = NoTx]
  /\ last' = IF op[p] = "rescan_schema"
             THEN [last EXCEPT ![dbname[p]] =
                     [scanned |-> TRUE, snap |-> snap[p],
                      again |-> last[dbname[p]].scanned /\ last[dbname[p]].snap = snap[p]]]
             ELSE last
  /\ Leave(p, IF op[p] = "add_database" THEN Ok(<< loc[p].database_id >>) ELSE Ok(<< >>))
  /\ seen' = [q \in Procs |->
                IF q # p /\ ~Callable(q) /\ op[q] \notin Writes
                THEN seen[q] \cup {store'} ELSE seen[q]]
  /\ UNCHANGED << ids, runs, op, dbname, arg, extConn, pre >>
  /\ UNCHANGED side

\* the `with self.engine.begin()` block ends: COMMIT.  The rows the transaction
\* deleted go (with what hangs on them), its new rows become committed rows.
Commit(p) ==
  /\ pc[p] = "commit"
  /\ store' = RowsUnion(CascadeDelete(store, tx[p].del), tx[p].ins)
  /\ tx' = [tx EXCEPT ![p] = NoTx]
  /\ last' = IF op[p] = "rescan_schema"
             THEN [last EXCEPT ![dbname[p]] =
                     [scanned |-> TRUE, snap |-> snap[p],
                      again |-> last[dbname[p]].scanned /\ last[dbname[p]].snap = snap[p]]]
             ELSE last
  /\ Leave(p, IF op[p] = "add_database" THEN Ok(<< loc[p].database_id >>) ELSE Ok(<< >>))
  /\ seen' = [q \in Procs |->
                IF q # p /\ ~Callable(q) /\ op[q] \notin Writes
                THEN seen[q] \cup {store'} ELSE seen[q]]
  /\ UNCHANGED << ids, runs, op, dbname, arg, extConn, pre >>
  /\ UNCHANGED side

(* ------------------------------------------------------------------ *)
(* add_database                                                        *)
(* ------------------------------------------------------------------ *)

\* add_database(name) is called
AddDatabaseCall(p, name) ==
  /\ Callable(p)
  /\ runs < MaxRuns
  /\ runs' = runs + 1
  /\ Enter(p, "add_database", name, << >>, CatEmpty, "check_name")
  /\ UNCHANGED side

\* `if not name: raise ValueError`
CheckName(p) ==
  /\ pc[p] = "check_name"
  /\ IF dbname[p] = ""
     THEN Leave(p, Raise("ValueError"))
     ELSE /\ pc' = [pc EXCEPT ![p] = "ping"]
          /\ UNCHANGED << ret, snap, idx, loc, cat >>
  /\ UNCHANGED << store, ids, runs, op, dbname, arg, extConn, tx, pre, seen, last >>
  /\ UNCHANGED side

\* test_connection(name) returned True
Ping(p) ==
  /\ pc[p] = "ping"
  /\ pc' = [pc EXCEPT ![p] = "begin"]
  /\ UNCHANGED << store, ids, runs, op, dbname, arg, cat, extConn, snap, idx, tx, loc, ret, pre, seen, last >>
  /\ UNCHANGED side

\* faulty variant of PingFail: the name was upserted before the connection
\* test, the failing test leaves the row committed
PingFail_AfterUpsert(p) ==
  /\ pc[p] = "ping"
  /\ Leave(p, Raise("ValueError"))
  /\ IF \E r \in store.meta_databases : r.name = dbname[p]
     THEN UNCHANGED << store, ids >>
     ELSE /\ ids' = [ids EXCEPT !.meta_databases = @ + 1]
          /\ store' = [store EXCEPT !.meta_databases =
                         @ \cup {[id |-> ids.meta_databases + 1, name |-> dbname[p]]}]
  /\ UNCHANGED << runs, op, dbname, arg, extConn, tx, pre, seen, last >>
  /\ UNCHANGED side

\* test_connection(name) returned False: `raise ValueError`
PingFail(p) ==
  /\ pc[p] = "ping"
  /\ Leave(p, Raise("ValueError"))
  /\ UNCHANGED << store, ids, runs, op, dbname, arg, extConn, tx, pre, seen, last >>
  /\ UNCHANGED side

(* ------------------------------------------------------------------ *)
(* The read API                                                        *)
(* ------------------------------------------------------------------ *)

\* the table arguments list_columns is called with
ReadTables == { << "p", ".", "c" >>, << "p", ".", "t" >>, << "c" >> }

RECURSIVE SetToSeq(_)
\* the rows of a result set, in some order
SetToSeq(S) ==
  IF S = {} THEN << >>
  ELSE LET x == CHOOSE x \in S : TRUE IN << x >> \o SetToSeq(S \ {x})

\* ... ORDER BY name
OrderByName(S) ==
  LET rows == SetToSeq(S)
  IN  SortByKey(rows, [n \in 1..Len(rows) |-> Codes(rows[n].name)])

ListTablesCall(p, d) ==
  /\ Callable(p)
  /\ Enter(p, "list_tables", d, << >>, CatEmpty, "get_id")
  /\ UNCHANGED runs
  /\ UNCHANGED side

ListColumnsCall(p, d, t) ==
  /\ Callable(p)
  /\ Enter(p, "list_columns", d, t, CatEmpty, "check_table")
  /\ UNCHANGED runs
  /\ UNCHANGED side

GetDatabaseIdCall(p, d) ==
  /\ Callable(p)
  /\ Enter(p, "get_database_id", d, << >>, CatEmpty, "get_id")
  /\ UNCHANGED runs
  /\ UNCHANGED side

\* list_columns: `if "." not in table: raise ValueError`
CheckTable(p) ==
  /\ pc[p] = "check_table"
  /\ IF ~HasDot(arg[p])
     THEN Leave(p, Raise("ValueError"))
     ELSE /\ pc' = [pc EXCEPT ![p] = "get_id"]
          /\ UNCHANGED << ret, snap, idx, loc, cat >>
  /\ UNCHANGED << store, ids, runs, op, dbname, arg, extConn, tx, pre, seen, last >>
  /\ UNCHANGED side

\* faulty variant of ReadDatabaseId: a name that is not found is registered
\* (get-or-create) and its new id is used
ReadDatabaseId_GetOrCreate(p) ==
  /\ pc[p] = "get_id"
  /\ LET found == _get_database_id(p)
         id == IF found = {} THEN ids.meta_databases + 1 ELSE CHOOSE id \in found : TRUE
     IN  /\ store' = IF found = {}
                     THEN [store EXCEPT !.meta_databases = @ \cup {[id |-> id, name |-> dbname[p]]}]
                     ELSE store
         /\ ids' = IF found = {} THEN [ids EXCEPT !.meta_databases = id] ELSE ids
         /\ IF op[p] = "get_database_id"
            THEN Leave(p, Ok(<< id >>))
            ELSE /\ loc' = [loc EXCEPT ![p].database_id = id]
                 /\ pc' = [pc EXCEPT ![p] =
                             IF op[p] = "list_tables" THEN "select_tables"
                             ELSE "select_table"]
                 /\ UNCHANGED << ret, snap, idx, cat >>
  /\ UNCHANGED << runs, op, dbname, arg, extConn, tx, pre, seen, last >>
  /\ UNCHANGED side

\* _get_database_id on a read connection
ReadDatabaseId(p) ==
  /\ pc[p] = "get_id"
  /\ IF _get_database_id(p) = {}
     THEN Leave(p, Raise("ValueError"))
     ELSE LET id == CHOOSE id \in _get_database_id(p) : TRUE
          IN  IF op[p] = "get_database_id"
              THEN Leave(p, Ok(<< id >>))
              ELSE /\ loc' = [loc EXCEPT ![p].database_id = id]
                   /\ pc' = [pc EXCEPT ![p] =
                               IF op[p] = "list_tables" THEN "select_tables"
                               ELSE "select_table"]
                   /\ UNCHANGED << ret, snap, idx, cat >>
  /\ UNCHANGED << store, ids, runs, op, dbname, arg, extConn, tx, pre, seen, last >>
  /\ UNCHANGED side

\* list_tables: SELECT name FROM meta_tables WHERE database_id = :db ORDER BY name
SelectTables(p) ==
  /\ pc[p] = "select_tables"
  /\ LET rows == OrderByName({t \in store.meta_tables : t.database_id = loc[p].database_id})
     IN  Leave(p, Ok([n \in 1..Len(rows) |-> rows[n].name]))
  /\ UNCHANGED << store, ids, runs, op, dbname, arg, extConn, tx, pre, seen, last >>
  /\ UNCHANGED side

\* list_columns: SELECT id FROM meta_tables WHERE database_id = :db AND name = :t
SelectTable(p) ==
  /\ pc[p] = "select_table"
  /\ LET rows == {t \in store.meta_tables :
                    t.database_id = loc[p].database_id /\ t.name = arg[p]}
     IN  IF rows = {}
         THEN Leave(p, Ok(<< >>))
         ELSE /\ loc' = [loc EXCEPT ![p].table_id = (CHOOSE t \in rows : TRUE).id]
              /\ pc' = [pc EXCEPT ![p] = "select_columns"]
              /\ UNCHANGED << ret, snap, idx, cat >>
  /\ UNCHANGED << store, ids, runs, op, dbname, arg, extConn, tx, pre, seen, last >>
  /\ UNCHANGED side

\* list_columns: SELECT name, data_type FROM meta_columns WHERE table_id = :t
\* ORDER BY name
SelectColumns(p) ==
  /\ pc[p] = "select_columns"
  /\ LET rows == OrderByName({c \in store.meta_columns : c.table_id = loc[p].table_id})
     IN  Leave(p, Ok([n \in 1..Len(rows) |-> << rows[n].name, rows[n].data_type >>]))
  /\ UNCHANGED << store, ids, runs, op, dbname, arg, extConn, tx, pre, seen, last >>
  /\ UNCHANGED side

(* ------------------------------------------------------------------ *)
(* Specifications                                                      *)
(* ------------------------------------------------------------------ *)

\* a step of an operation in progress
Step(p) ==
  \/ Connect(p) \/ ConnectFail(p) \/ ListTables(p) \/ ListColumns(p)
  \/ ListPrimaryKeys(p) \/ ListForeignKeys(p) \/ ExtractFail(p) \/ ExtractExit(p)
  \/ Begin(p) \/ UpsertInsert(p) \/ UpsertSelect(p) \/ DeleteScan(p) \/ DeleteApply(p)
  \/ InsertTable(p) \/ InsertColumns(p) \/ InsertPrimaryKeys(p) \/ InsertForeignKeys(p)
  \/ StoreFail(p) \/ Commit(p)
  \/ CheckName(p) \/ Ping(p) \/ PingFail(p)
  \/ CheckTable(p) \/ ReadDatabaseId(p) \/ SelectTables(p) \/ SelectTable(p)
  \/ SelectColumns(p)

\* a call of the API
Call(p) ==
  \/ \E d \in DbNames, c \in Catalogs : RescanCall(p, d, c)
  \/ \E d \in DbNames \cup {""} : AddDatabaseCall(p, d)
  \/ \E d \in DbNames : ListTablesCall(p, d)
  \/ \E d \in DbNames, t \in ReadTables : ListColumnsCall(p, d, t)
  \/ \E d \in DbNames : GetDatabaseIdCall(p, d)

\* one application instance: the operations run one after another
Next == Call(1) \/ Step(1)

Spec == Init /\ [][Next]_vars

\* the catalogs and table arguments of the operations that run concurrently
ConcCatalogs == {CatCustomers, CatOrders}

ConcReadTables == { << "p", ".", "c" >> }

\* a call of the API by one of several application instances: "shop" is
\* scanned and read, "crm" is registered
ConcCall(p) ==
  \/ \E c \in ConcCatalogs : RescanCall(p, "shop", c)
  \/ AddDatabaseCall(p, "crm")
  \/ ListTablesCall(p, "shop")
  \/ \E t \in ConcReadTables : ListColumnsCall(p, "shop", t)

\* several application instances share the metadata store: their operations
\* interleave statement by statement
NextConc == \E p \in Procs : ConcCall(p) \/ Step(p)

SpecConc == InitConc /\ [][NextConc]_vars

\* a step of a rescan_schema in progress
RescanStep(p) ==
  \/ Connect(p) \/ ConnectFail(p) \/ ListTables(p) \/ ListColumns(p)
  \/ ListPrimaryKeys(p) \/ ListForeignKeys(p) \/ ExtractFail(p) \/ ExtractExit(p)
  \/ Begin(p) \/ UpsertInsert(p) \/ UpsertSelect(p) \/ DeleteScan(p) \/ DeleteApply(p)
  \/ InsertTable(p) \/ InsertColumns(p) \/ InsertPrimaryKeys(p) \/ InsertForeignKeys(p)
  \/ StoreFail(p) \/ Commit(p)

\* the database each of two application instances synchronises
PairName(p) == IF p = 1 THEN "shop" ELSE "crm"

PairCall(p) == \E c \in ConcCatalogs : RescanCall(p, PairName(p), c)

\* two application instances synchronise two different databases into the one
\* metadata store
NextPair == \E p \in Procs : PairCall(p) \/ RescanStep(p)

SpecPair == InitConc /\ [][NextPair]_vars

(* ------------------------------------------------------------------ *)
(* rescan_schema, step 2, on the entries an extractor may return       *)
(* ------------------------------------------------------------------ *)

RECURSIVE ExtractTables(_, _, _)
\* `for t in tables:` of step 1: the three dicts filled table by table
ExtractTables(c, tables, s) ==
  IF tables = << >> THEN s
  ELSE LET t == Head(tables)
           fq == _fq(t.schema, t.table_name)
       IN  ExtractTables(c, Tail(tables),
             [s EXCEPT !.per_table_columns = DictPut(@, fq, list_columns(c, t.schema, t.table_name)),
                       !.per_table_pks = DictPut(@, fq, list_primary_keys(c, t.schema, t.table_name)),
                       !.per_table_fks = DictPut(@, fq, list_foreign_keys(c, t.schema, t.table_name))])

\* what step 1 reads from the catalog c
Extracted(c) ==
  LET tables == list_tables(c, NoSchemas, FALSE)
  IN  ExtractTables(c, tables, [NoSnap EXCEPT !.tables = tables])

tfq == _fq(pub, <<"t">>)

\* ForeignKeyInfo entries for the foreign key of p.t to itself: the flat lists
\* in either order; column_pairs absent, empty, agreeing with the flat lists,
\* disagreeing with them, or naming a column (z) the table does not have
FlatLists == {<< <<"t">>, <<"r">> >>, << <<"r">>, <<"t">> >>}

FlatReferenced == {<< <<"t">>, <<"i">> >>}

PairLists ==
  { << >>,
    << << <<"t">>, <<"t">> >>, << <<"r">>, <<"i">> >> >>,
    << << <<"r">>, <<"t">> >>, << <<"t">>, <<"i">> >> >>,
    << << <<"t">>, <<"t">> >>, << <<"z">>, <<"i">> >> >>,
    << << <<"t">>, <<"z">> >> >> }

FkEntries ==
  { [constraint_name |-> <<"t","_","f","k">>, columns |-> c,
     referenced_schema |-> pub, referenced_table |-> <<"t">>,
     referenced_columns |-> r] : c \in FlatLists, r \in FlatReferenced }
  \cup
  { [constraint_name |-> <<"t","_","f","k">>, columns |-> c,
     referenced_schema |-> pub, referenced_table |-> <<"t">>,
     referenced_columns |-> r, column_pairs |-> cp] :
       c \in FlatLists, r \in FlatReferenced, cp \in PairLists }

\* the snapshot of CatTenant with the entry e as the foreign keys of p.t
EntrySnapshot(e) ==
  LET s == Extracted(CatTenant)
  IN  [s EXCEPT !.per_table_fks = DictPut(@, tfq, << e >>)]

\* rescan_schema(d) has left the `with ext:` block with the snapshot s
ExtractedCall(p, d, s) ==
  /\ Callable(p)
  /\ runs < MaxRuns
  /\ runs' = runs + 1
  /\ op' = [op EXCEPT ![p] = "rescan_schema"]
  /\ dbname' = [dbname EXCEPT ![p] = d]
  /\ arg' = [arg EXCEPT ![p] = << >>]
  /\ snap' = [snap EXCEPT ![p] = s]
  /\ idx' = [idx EXCEPT ![p] = 0]
  /\ loc' = [loc EXCEPT ![p] = NoLocals]
  /\ ret' = [ret EXCEPT ![p] = NoResult]
  /\ pre' = [pre EXCEPT ![p] = [store |-> store, ids |-> ids]]
  /\ seen' = [seen EXCEPT ![p] = {}]
  /\ pc' = [pc EXCEPT ![p] = "begin"]
  /\ UNCHANGED << store, ids, cat, extConn, tx, last >>
  /\ UNCHANGED side

\* a step of rescan_schema's write phase
WriteStep(p) ==
  \/ Begin(p) \/ UpsertInsert(p) \/ UpsertSelect(p) \/ DeleteScan(p) \/ DeleteApply(p)
  \/ InsertTable(p) \/ InsertColumns(p) \/ InsertPrimaryKeys(p) \/ InsertForeignKeys(p)
  \/ StoreFail(p) \/ Commit(p)

NextEntries ==
  \/ \E d \in DbNames, e \in FkEntries : ExtractedCall(1, d, EntrySnapshot(e))
  \/ WriteStep(1)

SpecEntries == Init /\ [][NextEntries]_vars

\* the source databases of the rescans over quoted names
DottedCatalogs == {CatDotted, CatTenant}

NextDotted ==
  \/ \E c \in DottedCatalogs : RescanCall(1, "shop", c)
  \/ RescanStep(1)

SpecDotted == Init /\ [][NextDotted]_vars

(* ------------------------------------------------------------------ *)
(* app.db.connections: get_engine called from several threads          *)
(* ------------------------------------------------------------------ *)

MaxCalls == 3

\* get_engine(dbname) is called on thread t
GetEngineCall(t, d) ==
  /\ gpc[t] \in {"idle", "done"}
  /\ gcalls < MaxCalls
  /\ gcalls' = gcalls + 1
  /\ gname' = [gname EXCEPT ![t] = d]
  /\ engine' = [engine EXCEPT ![t] = 0]
  /\ gret' = [gret EXCEPT ![t] = 0]
  /\ gpc' = [gpc EXCEPT ![t] = "check"]
  /\ UNCHANGED << _engines, created >>
  /\ UNCHANGED << main, history, hseq, svc, run, qruns, ext, pool >>

\* `if dbname in _engines: return _engines[dbname]`
EngineCheck(t) ==
  /\ gpc[t] = "check"
  /\ IF gname[t] \in DOMAIN _engines
     THEN /\ gret' = [gret EXCEPT ![t] = _engines[gname[t]]]
          /\ gpc' = [gpc EXCEPT ![t] = "done"]
     ELSE /\ gpc' = [gpc EXCEPT ![t] = "create"]
          /\ UNCHANGED gret
  /\ UNCHANGED << _engines, created, gname, engine, gcalls >>
  /\ UNCHANGED << main, history, hseq, svc, run, qruns, ext, pool >>

\* `engine = create_engine(dsn, ...)`: a new Engine with its own pool
EngineCreate(t) ==
  /\ gpc[t] = "create"
  /\ LET e == Cardinality(created) + 1
     IN  /\ engine' = [engine EXCEPT ![t] = e]
         /\ created' = created \cup {[name |-> gname[t], engine |-> e]}
  /\ gpc' = [gpc EXCEPT ![t] = "store"]
  /\ UNCHANGED << _engines, gname, gret, gcalls >>
  /\ UNCHANGED << main, history, hseq, svc, run, qruns, ext, pool >>

\* `_engines[dbname] = engine; return engine`
EngineStore(t) ==
  /\ gpc[t] = "store"
  /\ _engines' = MapPut(_engines, gname[t], engine[t])
  /\ gret' = [gret EXCEPT ![t] = engine[t]]
  /\ gpc' = [gpc EXCEPT ![t] = "done"]
  /\ UNCHANGED << created, gname, engine, gcalls >>
  /\ UNCHANGED << main, history, hseq, svc, run, qruns, ext, pool >>

\* the threads of the process run get_engine statement by statement
NextEngines ==
  \E t \in Procs :
    \/ \E d \in DbNames : GetEngineCall(t, d)
    \/ EngineCheck(t)
    \/ EngineCreate(t)
    \/ EngineStore(t)

SpecEngines == Init /\ [][NextEngines]_vars

(* ------------------------------------------------------------------ *)
(* QueryService.run                                                    *)
(* ------------------------------------------------------------------ *)

MaxQueries == 2

Sqls == {"SELECT 1", "SELEC"}

Durations == {1, 2}

\* what a run leaves alone: the metadata store and the threads of get_engine
QueryFrame == UNCHANGED << main, gpc, gname, engine, gret, gcalls, ext, pool >>

\* QueryService(meta_repo, query_repo); service.on_logged = cb
NewService(repos, cb) ==
  /\ run.pc \in {"idle", "done"}
  /\ svc' = [repos |-> repos, on_logged |-> cb]
  /\ UNCHANGED << _engines, created, history, hseq, run, qruns >>
  /\ QueryFrame

\* run(dbname, sql) is called: `engine = get_engine(dbname)`
RunCall(d, sql) ==
  /\ run.pc \in {"idle", "done"}
  /\ qruns < MaxQueries
  /\ qruns' = qruns + 1
  /\ run' = [NoRun EXCEPT !.pc = "execute", !.dbname = d, !.sql = sql, !.pre = history,
                          !.repos = svc.repos]
  /\ IF d \in DOMAIN _engines
     THEN UNCHANGED << _engines, created >>
     ELSE LET e == Cardinality(created) + 1
          IN  /\ created' = created \cup {[name |-> d, engine |-> e]}
              /\ _engines' = MapPut(_engines, d, e)
  /\ UNCHANGED << history, hseq, svc >>
  /\ QueryFrame

\* the try block: the statement runs (ok stays True) or raises (ok, err =
\* False, str(e)); dt is the time it took
RunExecute(ok, dt) ==
  /\ run.pc = "execute"
  /\ run' = [run EXCEPT !.ok = ok, !.err = IF ok THEN "" ELSE "error", !.dt = dt,
                    !.pc = IF svc.repos THEN "get_database_id" ELSE "notify"]
  /\ UNCHANGED << _engines, created, history, hseq, svc, qruns >>
  /\ QueryFrame

\* SELECT id FROM meta_databases WHERE name = :n, for the run's dbname
RunDatabaseIds == {r.id : r \in {r \in store.meta_databases : r.name = run.dbname}}

\* db_id = self.meta_repo.get_database_id(dbname); `raises`: the store fails
RunGetDatabaseId(raises) ==
  /\ run.pc = "get_database_id"
  /\ IF raises \/ RunDatabaseIds = {}
     THEN run' = [run EXCEPT !.logfail = TRUE, !.pc = "notify"]
     ELSE run' = [run EXCEPT !.db_id = CHOOSE id \in RunDatabaseIds : TRUE,
                         !.pc = "add_history"]
  /\ UNCHANGED << _engines, created, history, hseq, svc, qruns >>
  /\ QueryFrame

\* QueryRepository.add_history: INSERT INTO app.run_history ... RETURNING id
add_history(database_id, sql_text, ok, duration_ms, error_text) ==
  [id |-> hseq + 1, database_id |-> database_id, sql_text |-> sql_text, ok |-> ok,
   duration_ms |-> duration_ms, error_text |-> error_text]

\* hist_id = self.query_repo.add_history(...); history_entry = {...}
RunAddHistory ==
  /\ run.pc = "add_history"
  /\ LET row == add_history(run.db_id, run.sql, run.ok, run.dt, run.err)
     IN  /\ history' = history \cup {row}
         /\ hseq' = row.id
         /\ run' = [run EXCEPT !.history_entry = row, !.pc = "notify"]
  /\ UNCHANGED << _engines, created, svc, qruns >>
  /\ QueryFrame

\* add_history raises (the store fails, the transaction rolls back):
\* `except Exception: pass`
RunAddHistoryFail ==
  /\ run.pc = "add_history"
  /\ run' = [run EXCEPT !.logfail = TRUE, !.pc = "notify"]
  /\ UNCHANGED << _engines, created, history, hseq, svc, qruns >>
  /\ QueryFrame

\* the dict run returns
Result == [raised |-> FALSE, ok |-> run.ok, duration_ms |-> run.dt, error |-> run.err]

\* faulty variant of RunNotify: the callback is called without try/except
RunNotify_Propagates(raises) ==
  /\ run.pc = "notify"
  /\ IF svc.on_logged = "callable" /\ run.history_entry # None
     THEN run' = [run EXCEPT !.cbs = @ + 1, !.pc = "done",
                         !.ret = IF raises THEN [Result EXCEPT !.raised = TRUE] ELSE Result]
     ELSE run' = [run EXCEPT !.pc = "done", !.ret = Result]
  /\ UNCHANGED << _engines, created, history, hseq, svc, qruns >>
  /\ QueryFrame

\* `if callable(cb) and history_entry is not None: try: cb(history_entry)
\* except Exception: pass`, then `return {...}`; `raises`: the callback raises
RunNotify(raises) ==
  /\ run.pc = "notify"
  /\ IF svc.on_logged = "callable" /\ run.history_entry # None
     THEN run' = [run EXCEPT !.cbs = @ + 1, !.pc = "done", !.ret = Result]
     ELSE run' = [run EXCEPT !.pc = "done", !.ret = Result]
  /\ UNCHANGED << _engines, created, history, hseq, svc, qruns >>
  /\ QueryFrame

NextQuery ==
  \/ \E repos \in BOOLEAN, cb \in {"none", "callable"} : NewService(repos, cb)
  \/ \E d \in DbNames, sql \in Sqls : RunCall(d, sql)
  \/ \E ok \in BOOLEAN, dt \in Durations : RunExecute(ok, dt)
  \/ \E raises \in BOOLEAN : RunGetDatabaseId(raises)
  \/ RunAddHistory
  \/ RunAddHistoryFail
  \/ \E raises \in BOOLEAN : RunNotify(raises)

\* the store holds "shop"; the user runs statements one after another
SpecQuery == InitConc /\ [][NextQuery]_vars

(* ------------------------------------------------------------------ *)
(* Direct calls of the extractor API                                   *)
(* ------------------------------------------------------------------ *)

hid == << "h" >>

\* the rearrangements of a sequence: a catalog table is a heap, its rows come
\* in any order
Perms(s) == {[n \in 1..Len(s) |-> s[f[n]]] : f \in Permutations(1..Len(s))}

\* tables of two user schemas and of the system schemas; p.t has the composite
\* key t_pk (t, i) and the two-column foreign key t_fk to itself, p.a has a
\* foreign key to p.t whose name is fkname
CatWide(fkname, keycols, fkrows) ==
  [tables |-> << TRow(pub, <<"t">>, "BASE TABLE"),
                 TRow(<<"p","g","_","c","a","t","a","l","o","g">>, <<"p","g","_","c","l","a","s","s">>, "BASE TABLE"),
                 TRow(hid, <<"c">>, "BASE TABLE"),
                 TRow(<<"i","n","f","o","r","m","a","t","i","o","n","_","s","c","h","e","m","a">>, <<"t","a","b","l","e","s">>, "VIEW"),
                 TRow(pub, <<"a">>, "VIEW") >>,
   attrs |-> << ARow(pub, <<"t">>, 3, <<"r">>, "numeric(10,2)", FALSE, FALSE),
                ARow(pub, <<"t">>, 1, <<"t">>, "integer", TRUE, FALSE),
                ARow(pub, <<"t">>, 2, <<"i">>, "integer", TRUE, FALSE),
                ARow(pub, <<"a">>, 1, <<"k">>, "integer", FALSE, FALSE),
                ARow(hid, <<"c">>, 1, <<"i">>, "integer", TRUE, FALSE) >>,
   tcrows |-> << TCRow(pub, <<"t">>, <<"t","_","p","k">>, "PRIMARY KEY"),
                 TCRow(pub, <<"t">>, <<"t","_","f","k">>, "FOREIGN KEY"),
                 TCRow(pub, <<"a">>, fkname, "FOREIGN KEY") >>,
   kcurows |-> keycols \o << KRow(pub, <<"t">>, <<"t","_","f","k">>, <<"t">>, 1),
                             KRow(pub, <<"t">>, <<"t","_","f","k">>, <<"r">>, 2) >>,
   fkrows |-> fkrows]

\* the names the foreign key of p.a may have: one of its own, or the name of
\* the primary key of p.t (constraint names are unique per table only)
FkNames == { <<"a","_","f","k">>, <<"t","_","p","k">> }

\* the key_column_usage rows of the two named keys and the pg_constraint rows
\* of the foreign keys, the foreign key of p.a being named n
KeyColumnRows(n) ==
  << KRow(pub, <<"t">>, <<"t","_","p","k">>, <<"t">>, 1),
     KRow(pub, <<"t">>, <<"t","_","p","k">>, <<"i">>, 2),
     KRow(pub, <<"a">>, n, <<"k">>, 1) >>

ForeignKeyRows(n) ==
  << FRow(pub, <<"t">>, <<"t","_","f","k">>, pub, <<"t">>, <<"t">>, <<"t">>, 1),
     FRow(pub, <<"t">>, <<"t","_","f","k">>, pub, <<"t">>, <<"r">>, <<"i">>, 2),
     FRow(pub, <<"a">>, n, pub, <<"t">>, <<"k">>, <<"i">>, 1) >>

ExtractCatalogs ==
  UNION { { CatWide(n, keycols, fkrows) :
              keycols \in Perms(KeyColumnRows(n)), fkrows \in Perms(ForeignKeyRows(n)) } :
          n \in FkNames }

\* the schemas arguments of list_tables: None, [] and lists of schema names
SchemaArgs ==
  {NoSchemas} \cup
  {[given |-> TRUE, list |-> l] : l \in { << >>, << pub >>, << hid >>, << hid, pub >> }}

\* the (table_schema, table_name) arguments of the per-table methods
TableArgs ==
  { << pub, <<"t">> >>, << pub, <<"a">> >>, << hid, <<"c">> >>, << hid, <<"t">> >> }

\* the extractor of p is connected to a database whose catalog is one of
\* ExtractCatalogs; the store plays no part
InitExtract ==
  /\ store = NoRows
  /\ ids = NoIds
  /\ runs = 0
  /\ pc = [p \in Procs |-> "idle"]
  /\ op = [p \in Procs |-> "none"]
  /\ dbname = [p \in Procs |-> ""]
  /\ arg = [p \in Procs |-> << >>]
  /\ \E c \in ExtractCatalogs : cat = [p \in Procs |-> c]
  /\ extConn = [p \in Procs |-> FALSE]
  /\ snap = [p \in Procs |-> NoSnap]
  /\ idx = [p \in Procs |-> 0]
  /\ tx = [p \in Procs |-> NoTx]
  /\ loc = [p \in Procs |-> NoLocals]
  /\ ret = [p \in Procs |-> NoResult]
  /\ pre = [p \in Procs |-> NoPre]
  /\ seen = [p \in Procs |-> {}]
  /\ last = [d \in DbNames |-> NoScan]
  /\ InitSide

\* a method of the extractor, called by p with the arguments a, returns r; the
\* method's self.connect() leaves the extractor connected
ExtReturn(p, method, a, r) ==
  /\ op' = [op EXCEPT ![p] = method]
  /\ arg' = [arg EXCEPT ![p] = a]
  /\ extConn' = [extConn EXCEPT ![p] = TRUE]
  /\ ret' = [ret EXCEPT ![p] = Ok(r)]
  /\ pc' = [pc EXCEPT ![p] = "done"]
  /\ UNCHANGED << store, ids, runs, dbname, cat, snap, idx, tx, loc, pre, seen, last >>

\* ext.list_tables(schemas=..., include_system_schemas=...)
ExtListTables(p, schemas, include_system_schemas) ==
  /\ Callable(p)
  /\ ExtReturn(p, "ext.list_tables",
               [schemas |-> schemas, include_system_schemas |-> include_system_schemas],
               list_tables(cat[p], schemas, include_system_schemas))
  /\ UNCHANGED side

\* ext.list_columns(table_schema, table_name)
ExtListColumns(p, table_schema, table_name) ==
  /\ Callable(p)
  /\ ExtReturn(p, "ext.list_columns",
               [table_schema |-> table_schema, table_name |-> table_name],
               list_columns(cat[p], table_schema, table_name))
  /\ UNCHANGED side

\* ext.list_primary_keys(table_schema, table_name)
ExtListPrimaryKeys(p, table_schema, table_name) ==
  /\ Callable(p)
  /\ ExtReturn(p, "ext.list_primary_keys",
               [table_schema |-> table_schema, table_name |-> table_name],
               list_primary_keys(cat[p], table_schema, table_name))
  /\ UNCHANGED side

\* ext.list_foreign_keys(table_schema, table_name)
ExtListForeignKeys(p, table_schema, table_name) ==
  /\ Callable(p)
  /\ ExtReturn(p, "ext.list_foreign_keys",
               [table_schema |-> table_schema, table_name |-> table_name],
               list_foreign_keys(cat[p], table_schema, table_name))
  /\ UNCHANGED side

\* a client of the extractor calls its methods, one after another
NextExtract ==
  \/ \E schemas \in SchemaArgs, inc \in BOOLEAN : ExtListTables(1, schemas, inc)
  \/ \E t \in TableArgs : ExtListColumns(1, t[1], t[2])
  \/ \E t \in TableArgs : ExtListPrimaryKeys(1, t[1], t[2])
  \/ \E t \in TableArgs : ExtListForeignKeys(1, t[1], t[2])

SpecExtract == InitExtract /\ [][NextExtract]_vars

(* ------------------------------------------------------------------ *)
(* PostgresExtractor: connect, close and the `with ext:` block         *)
(* ------------------------------------------------------------------ *)

MaxConnects == 3

\* what the extractor leaves alone
ExtFrame ==
  UNCHANGED << main, _engines, created, gpc, gname, engine, gret, gcalls,
               history, hseq, svc, run, qruns >>

\* rescan_schema: `ext = PostgresExtractor({"dbname": dbname})`, `with ext:`
\* -> __enter__ -> self.connect()
WithEnter ==
  /\ ext.pc \in {"none", "returned", "raised"} \/ (ext.pc = "ready" /\ ext.conn = 0)
  /\ pool.seq < MaxConnects
  /\ ext' = [NoExtractor EXCEPT !.pc = "connect", !.caller = "with"]
  /\ UNCHANGED pool
  /\ ExtFrame

\* a caller builds an extractor to call its methods itself
NewExtractor ==
  /\ ext.pc \in {"none", "returned", "raised"}
  /\ pool.seq < MaxConnects
  /\ ext' = [NoExtractor EXCEPT !.pc = "ready"]
  /\ UNCHANGED pool
  /\ ExtFrame

\* the caller calls ext.connect()
ConnectCall ==
  /\ ext.pc = "ready"
  /\ pool.seq < MaxConnects
  /\ ext' = [ext EXCEPT !.pc = "connect", !.caller = "api"]
  /\ UNCHANGED pool
  /\ ExtFrame

\* the caller calls ext.close()
CloseCall ==
  /\ ext.pc = "ready"
  /\ ext' = [ext EXCEPT !.pc = "close_cursor", !.caller = "api"]
  /\ UNCHANGED pool
  /\ ExtFrame

\* where connect returns to: the body of the with block, or the caller
Connected == IF ext.caller = "with" THEN "body" ELSE "ready"

\* where an exception of connect goes: __enter__ raised, so the with block is
\* not entered and __exit__ is not called, rescan_schema raises; or the caller
ConnectRaised == IF ext.caller = "with" THEN "raised" ELSE "ready"

\* connect: `if self.conn is not None: return`
ConnectCheck ==
  /\ ext.pc = "connect"
  /\ ext' = [ext EXCEPT !.pc = IF ext.conn # 0 THEN Connected ELSE "raw_connection"]
  /\ UNCHANGED pool
  /\ ExtFrame

\* connect: `raw = self._engine.raw_connection()` checks a connection out of
\* the pool, or raises
RawConnection(ok) ==
  /\ ext.pc = "raw_connection"
  /\ IF ok
     THEN /\ pool' = [out |-> pool.out \cup {pool.seq + 1}, seq |-> pool.seq + 1]
          /\ ext' = [ext EXCEPT !.raw = pool.seq + 1, !.pc = "autocommit"]
     ELSE /\ ext' = [ext EXCEPT !.pc = ConnectRaised]
          /\ UNCHANGED pool
  /\ ExtFrame

\* connect: `try: raw.autocommit = True except Exception: pass`, then
\* `self.conn = raw`
SetAutocommit ==
  /\ ext.pc = "autocommit"
  /\ ext' = [ext EXCEPT !.conn = ext.raw, !.pc = "cursor"]
  /\ UNCHANGED pool
  /\ ExtFrame

\* connect: `self.cursor = raw.cursor()`, which raises on a connection that
\* has broken
Cursor(ok) ==
  /\ ext.pc = "cursor"
  /\ IF ok
     THEN ext' = [ext EXCEPT !.cursor = ext.raw, !.pc = Connected]
     ELSE ext' = [ext EXCEPT !.pc = ConnectRaised]
  /\ UNCHANGED pool
  /\ ExtFrame

\* the body of `with ext:` (the catalog queries) ends, or raises: __exit__
\* calls self.close()
WithBody(ok) ==
  /\ ext.pc = "body"
  /\ ext' = [ext EXCEPT !.pc = "close_cursor", !.caller = IF ok THEN "exit" ELSE "exit_raising"]
  /\ UNCHANGED pool
  /\ ExtFrame

\* close: `if self.cursor: try: self.cursor.close() except Exception: pass`
CloseCursor ==
  /\ ext.pc = "close_cursor"
  /\ ext' = [ext EXCEPT !.pc = "close_conn"]
  /\ UNCHANGED pool
  /\ ExtFrame

\* close: `if self.conn: try: self.conn.close() except Exception: pass`
CloseConn ==
  /\ ext.pc = "close_conn"
  /\ pool' = [pool EXCEPT !.out = IF ext.conn # 0 THEN @ \ {ext.conn} ELSE @]
  /\ ext' = [ext EXCEPT !.pc = "reset"]
  /\ ExtFrame

\* close: `self.cursor = None; self.conn = None; self._engine = None`, and
\* close returns: to the caller, or __exit__ returns and rescan_schema goes on
\* (or the exception of the body leaves it)
CloseReset ==
  /\ ext.pc = "reset"
  /\ ext' = [ext EXCEPT !.cursor = 0, !.conn = 0, !.raw = 0,
                        !.pc = IF ext.caller = "api" THEN "ready"
                               ELSE IF ext.caller = "exit" THEN "returned" ELSE "raised"]
  /\ UNCHANGED pool
  /\ ExtFrame

NextLifecycle ==
  \/ WithEnter
  \/ NewExtractor
  \/ ConnectCall
  \/ CloseCall
  \/ ConnectCheck
  \/ \E ok \in BOOLEAN : RawConnection(ok)
  \/ SetAutocommit
  \/ \E ok \in BOOLEAN : Cursor(ok)
  \/ \E ok \in BOOLEAN : WithBody(ok)
  \/ CloseCursor
  \/ CloseConn
  \/ CloseReset

SpecLifecycle == Init /\ [][NextLifecycle]_vars

(* ------------------------------------------------------------------ *)
(* Views of the store that do not mention surrogate ids                *)
(* ------------------------------------------------------------------ *)

\* the ids of the meta_databases rows named d
DatabaseIds(st, d) == {r.id : r \in {r \in st.meta_databases : r.name = d}}

\* the meta_tables rows of the database named d
TablesOf(st, d) == {t \in st.meta_tables : t.database_id \in DatabaseIds(st, d)}

\* the table names stored for d
TableNames(st, d) == {t.name : t \in TablesOf(st, d)}

\* the fully-qualified names of a snapshot's tables
SnapshotNames(s) ==
  {_fq(s.tables[n].schema, s.tables[n].table_name) : n \in 1..Len(s.tables)}

TableName(st, id) == (CHOOSE t \in st.meta_tables : t.id = id).name

ColumnName(st, id) == (CHOOSE c \in st.meta_columns : c.id = id).name

\* the content stored for d: table names, (table, column, type), per primary key
\* its table and (column, ordinal position) list, per foreign key its two tables
\* and (column, referenced column, ordinal position) list
Subtree(st, d) ==
  LET tids == {t.id : t \in TablesOf(st, d)}
      PkCols(k) == {<< ColumnName(st, r.column_id), r.ordinal_position >> :
                      r \in {r \in st.meta_primary_key_columns : r.pk_id = k.id}}
      FkCols(k) == {<< ColumnName(st, r.column_id), ColumnName(st, r.referenced_column_id),
                       r.ordinal_position >> :
                      r \in {r \in st.meta_foreign_key_columns : r.fk_id = k.id}}
  IN  [tables |-> TableNames(st, d),
       columns |-> {<< TableName(st, c.table_id), c.name, c.data_type >> :
                      c \in {c \in st.meta_columns : c.table_id \in tids}},
       primary_keys |-> {<< TableName(st, k.table_id), PkCols(k) >> :
                           k \in {k \in st.meta_primary_keys : k.table_id \in tids}},
       foreign_keys |-> {<< TableName(st, k.table_id), TableName(st, k.referenced_table_id),
                            FkCols(k) >> :
                           k \in {k \in st.meta_foreign_keys : k.table_id \in tids}}]

\* a foreign key of the snapshot references a table the snapshot does not list
HasDangling(s) ==
  \E n \in 1..Len(s.per_table_fks) :
    \E m \in 1..Len(s.per_table_fks[n].val) :
      LET fk == s.per_table_fks[n].val[m]
      IN  _fq(fk.referenced_schema, fk.referenced_table) \notin SnapshotNames(s)

\* list_tables(d), all its statements run on the one committed state st
ReadTablesAt(st, d) ==
  IF DatabaseIds(st, d) = {} THEN Raise("ValueError")
  ELSE LET rows == OrderByName(TablesOf(st, d))
       IN  Ok([n \in 1..Len(rows) |-> rows[n].name])

\* list_columns(d, t), all its statements run on the one committed state st
ReadColumnsAt(st, d, t) ==
  IF ~HasDot(t) \/ DatabaseIds(st, d) = {} THEN Raise("ValueError")
  ELSE LET tabs == {x \in TablesOf(st, d) : x.name = t}
       IN  IF tabs = {} THEN Ok(<< >>)
           ELSE LET rows == OrderByName({c \in st.meta_columns :
                                           c.table_id = (CHOOSE x \in tabs : TRUE).id})
                IN  Ok([n \in 1..Len(rows) |-> << rows[n].name, rows[n].data_type >>])

\* the process's rescan_schema has ended with an exception
RescanFailed(p) == pc[p] = "done" /\ op[p] = "rescan_schema" /\ ~ret[p].ok

ExtractionPcs ==
  {"connect", "list_tables", "list_columns", "list_primary_keys", "list_foreign_keys",
   "ext_exit"}

(* ------------------------------------------------------------------ *)
(* Properties                                                          *)
(* ------------------------------------------------------------------ *)

\* C1: a rescan whose snapshot holds a foreign key to a table that is not among
\* the snapshot's tables never reaches COMMIT, and when it raises the error of
\* the dangling reference the committed store is the one it was called on.
C1_DanglingRollsBack ==
  \A p \in Procs :
    /\ (pc[p] = "commit" /\ op[p] = "rescan_schema") => ~HasDangling(snap[p])
    /\ (RescanFailed(p) /\ ret[p].err = "RuntimeError") =>
          /\ store = pre[p].store
          /\ \A d \in DbNames : Subtree(store, d) = Subtree(pre[p].store, d)
          /\ ReadTablesAt(store, dbname[p]) = ReadTablesAt(pre[p].store, dbname[p])

\* C1: a rescan has raised on a dangling reference over a database that an
\* earlier rescan had filled
C1_Witness ==
  /\ RescanFailed(1)
  /\ ret[1].err = "RuntimeError"
  /\ TableNames(store, dbname[1]) # {}

\* C2: while rescan_schema reads the source no store transaction is open, and a
\* rescan that fails in the extraction phase (connect or a catalog query) leaves
\* the committed store and its sequences as they were when it was called.
C2_ExtractionFailureWritesNothing ==
  \A p \in Procs :
    /\ (op[p] = "rescan_schema" /\ pc[p] \in ExtractionPcs) =>
          /\ tx[p] = NoTx
          /\ store = pre[p].store
          /\ ids = pre[p].ids
    /\ (RescanFailed(p) /\ ret[p].err \in {"ConnectionError", "DatabaseError"}) =>
          /\ tx[p] = NoTx
          /\ store = pre[p].store
          /\ ids = pre[p].ids

\* C2: a catalog query has failed during a rescan of a database with stored tables
C2_Witness ==
  /\ RescanFailed(1)
  /\ ret[1].err = "DatabaseError"
  /\ TableNames(store, dbname[1]) # {}

\* C3: after a committed rescan of d the table names stored for d are exactly
\* the fully-qualified names of its snapshot, each stored once, and list_tables
\* returns the stored names in strictly ascending order.
C3_FullReplace ==
  /\ \A d \in DbNames :
       last[d].scanned =>
         /\ TableNames(store, d) = SnapshotNames(last[d].snap)
         /\ Cardinality(TablesOf(store, d)) = Len(last[d].snap.tables)
  /\ \A p \in Procs :
       (pc[p] = "done" /\ op[p] = "list_tables" /\ ret[p].ok) =>
         /\ SeqToSet(ret[p].val) = TableNames(store, dbname[p])
         /\ Len(ret[p].val) = Cardinality(TablesOf(store, dbname[p]))
         /\ \A n \in 1..(Len(ret[p].val) - 1) : StrLess(ret[p].val[n], ret[p].val[n + 1])

\* C3: list_tables has returned several names after a rescan replaced the
\* tables of an earlier scan of the same database
C3_Witness ==
  /\ pc[1] = "done" /\ op[1] = "list_tables" /\ ret[1].ok
  /\ Len(ret[1].val) > 1
  /\ last[dbname[1]].scanned
  /\ TablesOf(store, dbname[1]) = store.meta_tables
  /\ ids.meta_tables > Cardinality(store.meta_tables)

\* C4 (step): the COMMIT of a rescan of d whose snapshot is the one of the last
\* committed rescan of d leaves the content stored for d as it was.
C4_Step ==
  \A p \in Procs :
    ( /\ pc[p] = "commit" /\ op[p] = "rescan_schema"
      /\ pc'[p] = "done" /\ ret'[p].ok
      /\ last[dbname[p]].scanned
      /\ last[dbname[p]].snap = snap[p] )
    => Subtree(store', dbname[p]) = Subtree(store, dbname[p])

\* C4: rescanning d against an unchanged source leaves the subtree of d with the
\* same table names, (column, type) pairs, primary-key column lists with their
\* ordinal positions and foreign-key column mappings; only ids differ.
C4_RescanIdempotent == [][C4_Step]_vars

\* C4: two rescans in a row have committed the same snapshot, one with tables,
\* a primary key and a foreign key, and the rows carry new ids
C4_Witness ==
  \E d \in DbNames :
    /\ last[d].again
    /\ Subtree(store, d).primary_keys # {}
    /\ Subtree(store, d).foreign_keys # {}
    /\ \A t \in TablesOf(store, d) : t.id > Len(last[d].snap.tables)

\* C5: the store holds at most one meta_databases row per name; add_database
\* returns the id of the row of its name, and for a name that was registered
\* when it was called that is the id it had, with no row added; the same holds
\* for the database_id a rescan works with.
C5_RegisterIdempotent ==
  /\ \A r1, r2 \in store.meta_databases : r1.name = r2.name => r1 = r2
  /\ \A p \in Procs :
       (pc[p] = "done" /\ op[p] = "add_database" /\ ret[p].ok) =>
         /\ DatabaseIds(store, dbname[p]) = {ret[p].val[1]}
         /\ DatabaseIds(pre[p].store, dbname[p]) # {} =>
              /\ DatabaseIds(pre[p].store, dbname[p]) = {ret[p].val[1]}
              /\ store.meta_databases = pre[p].store.meta_databases
  /\ \A p \in Procs :
       (op[p] \in Writes /\ loc[p].database_id # 0
          /\ DatabaseIds(pre[p].store, dbname[p]) # {}) =>
         DatabaseIds(pre[p].store, dbname[p]) = {loc[p].database_id}

\* C5: add_database has returned for a name that was registered before the call
C5_Witness ==
  /\ pc[1] = "done" /\ op[1] = "add_database" /\ ret[1].ok
  /\ DatabaseIds(pre[1].store, dbname[1]) # {}

\* C6: a list_tables or list_columns call returns what the call returns on one
\* of the committed states of the store there were while it ran (the state
\* before or the state after a concurrent rescan), never a mix of two.
C6_ReadsSeeOneCommittedState ==
  \A p \in Procs :
    /\ (pc[p] = "done" /\ op[p] = "list_tables") =>
          ret[p] \in {ReadTablesAt(st, dbname[p]) : st \in seen[p]}
    /\ (pc[p] = "done" /\ op[p] = "list_columns") =>
          ret[p] \in {ReadColumnsAt(st, dbname[p], arg[p]) : st \in seen[p]}

\* C7: the tables stored for a database are those of one snapshot (the empty
\* prior state, or what one of the concurrent rescans extracted), never tables
\* of two runs together, and no table name is stored twice.
C7_NoTornWrite ==
  \A d \in DbNames :
    /\ TableNames(store, d) \in
         {{}} \cup {{_fq(t.schema, t.table_name) : t \in SeqToSet(list_tables(c, NoSchemas, FALSE))} :
                      c \in ConcCatalogs}
    /\ Cardinality(TablesOf(store, d)) = Cardinality(TableNames(store, d))

\* C8: concurrent add_database calls of one unregistered name raise no
\* duplicate-registration error (no unique violation, and the fetch after a
\* conflicting insert finds the row), return the same id, and leave one row for
\* the name.
C8_ConcurrentRegister ==
  /\ \A r1, r2 \in store.meta_databases : r1.name = r2.name => r1 = r2
  /\ \A p \in Procs :
       /\ pc[p] = "upsert_select" => _get_database_id(p) # {}
       /\ (pc[p] = "done" /\ op[p] = "add_database") =>
             ret[p].err \in {"", "ValueError", "OperationalError"}
       /\ (pc[p] = "done" /\ op[p] = "add_database" /\ ret[p].ok) =>
             DatabaseIds(store, dbname[p]) = {ret[p].val[1]}
  /\ \A p, q \in Procs :
       ( /\ pc[p] = "done" /\ op[p] = "add_database" /\ ret[p].ok
         /\ pc[q] = "done" /\ op[q] = "add_database" /\ ret[q].ok
         /\ dbname[p] = dbname[q] )
       => ret[p].val = ret[q].val

\* C8: two add_database calls of a name, each started while the name was not
\* registered, have both returned
C8_Witness ==
  /\ \A p \in Procs :
       /\ pc[p] = "done" /\ op[p] = "add_database" /\ ret[p].ok
       /\ dbname[p] = "crm"
       /\ DatabaseIds(pre[p].store, "crm") = {}
  /\ Cardinality(DatabaseIds(store, "crm")) = 1

\* C9: no process holds its source connection while its store transaction is
\* open; the transaction is not open while the extractor reads; and as long as
\* the connection is held the store is the one rescan_schema was called on.
C9_ExtractorClosedBeforeWrites ==
  \A p \in Procs :
    /\ ~(tx[p].open /\ extConn[p])
    /\ pc[p] \in ExtractionPcs => ~tx[p].open
    /\ extConn[p] => (op[p] = "rescan_schema" /\ store = pre[p].store /\ ids = pre[p].ids)
    /\ pc[p] \in {"idle", "done"} => ~extConn[p]

\* C9: a rescan's transaction holds new table rows and its extractor is closed
C9_Witness ==
  /\ op[1] = "rescan_schema"
  /\ tx[1].open
  /\ tx[1].ins.meta_tables # {}
  /\ ~extConn[1]

\* C10: while the transaction of a rescan is open, and after the rescan has
\* failed, the committed store is the one the rescan was called on: no upsert
\* of the database row, no deletion of the old subtree and no partial
\* replacement is committed.
C10_FailedRescanCommitsNothing ==
  \A p \in Procs :
    /\ (op[p] = "rescan_schema" /\ tx[p].open) => store = pre[p].store
    /\ RescanFailed(p) =>
          /\ store = pre[p].store
          /\ tx[p] = NoTx
          /\ DatabaseIds(pre[p].store, dbname[p]) = {} => DatabaseIds(store, dbname[p]) = {}

\* C10: a rescan of an unregistered name has failed after its upsert took an id
\* from the sequence, and the name is still unregistered
C10_Witness ==
  /\ RescanFailed(1)
  /\ ids.meta_databases > pre[1].ids.meta_databases
  /\ DatabaseIds(store, dbname[1]) = {}

\* C11 (step): every committed meta_databases row is still there after the
\* step, and its name still resolves to its id alone.
C11_Step ==
  \A r \in store.meta_databases :
    /\ r \in store'.meta_databases
    /\ DatabaseIds(store', r.name) = {r.id}

\* C11: no step of add_database, rescan_schema (committed or failed) or a read
\* removes a committed meta_databases row or changes the id of a registered name.
C11_DatabasesAppendOnly == [][C11_Step]_vars

\* C11: a rescan of a name that was registered and had tables has committed,
\* and the name resolves to the id it had
C11_Witness ==
  /\ pc[1] = "done" /\ op[1] = "rescan_schema" /\ ret[1].ok
  /\ DatabaseIds(pre[1].store, dbname[1]) # {}
  /\ DatabaseIds(store, dbname[1]) = DatabaseIds(pre[1].store, dbname[1])
  /\ TableNames(pre[1].store, dbname[1]) # {}

\* C12 (step): the content stored for a database changes only in the COMMIT of
\* a rescan of that database.
C12_Step ==
  \A d \in DbNames :
    Subtree(store', d) # Subtree(store, d) =>
      \E p \in Procs :
        /\ pc[p] = "commit" /\ op[p] = "rescan_schema" /\ dbname[p] = d
        /\ pc'[p] = "done" /\ ret'[p].ok

\* C12: a rescan of D1, committed or rolled back, leaves the tables, columns,
\* primary keys and foreign keys stored for every other database as they were,
\* also while a rescan of the other database is in progress.
C12_OtherDatabasesUntouched == [][C12_Step]_vars

\* C12: rescans of two databases that ran at the same time have both
\* committed, and both databases hold tables
C12_Witness ==
  /\ \A p \in Procs : pc[p] = "done" /\ op[p] = "rescan_schema" /\ ret[p].ok
  /\ dbname[1] # dbname[2]
  /\ pre[1].store = pre[2].store
  /\ \A p \in Procs : TableNames(store, dbname[p]) # {}

\* the meta_foreign_key_columns rows of a foreign key
FkColumnRows(st, k) == {r \in st.meta_foreign_key_columns : r.fk_id = k.id}

\* the foreign keys of a snapshot: source table, referenced table and the
\* column pairs numbered from 1 in pair order
SnapshotForeignKeys(s) ==
  UNION {
    { << s.per_table_fks[n].key,
         _fq(s.per_table_fks[n].val[m].referenced_schema,
             s.per_table_fks[n].val[m].referenced_table),
         { << PairsOf(s.per_table_fks[n].val[m])[i][1],
              PairsOf(s.per_table_fks[n].val[m])[i][2], i >> :
             i \in 1..Len(PairsOf(s.per_table_fks[n].val[m])) } >> :
      m \in 1..Len(s.per_table_fks[n].val) } :
    n \in 1..Len(s.per_table_fks) }

\* C13: the column rows of every stored foreign key carry the ordinal positions
\* 1..k, each once, k being the number of its rows; and after a committed
\* rescan the foreign keys stored for the database are those of the snapshot,
\* the i-th pair of each stored at ordinal position i.
C13_FkOrdinalsDense ==
  /\ \A k \in store.meta_foreign_keys :
       {r.ordinal_position : r \in FkColumnRows(store, k)} =
         1..Cardinality(FkColumnRows(store, k))
  /\ \A d \in DbNames :
       last[d].scanned =>
         Subtree(store, d).foreign_keys = SnapshotForeignKeys(last[d].snap)

\* C13: a foreign key of several column pairs is stored
C13_Witness ==
  \E k \in store.meta_foreign_keys : Cardinality(FkColumnRows(store, k)) > 1

\* the extractor method has returned to p
Returned(p, method) == pc[p] = "done" /\ op[p] = method /\ ret[p].ok

\* the pg_constraint rows of the foreign key cname of the table the method was
\* called for
RawFkRows(p, cname) ==
  {r \in SeqToSet(cat[p].fkrows) :
     /\ r.src_schema = arg[p].table_schema
     /\ r.src_table = arg[p].table_name
     /\ r.constraint_name = cname}

\* C14: in every ForeignKeyInfo list_foreign_keys returns, columns,
\* referenced_columns and column_pairs have one length, the number of the
\* constraint's catalog rows; column_pairs[i] = (columns[i],
\* referenced_columns[i]); and the i-th entries are those of the catalog row of
\* array position i.
C14_ForeignKeyPairs ==
  \A p \in Procs :
    Returned(p, "ext.list_foreign_keys") =>
      \A n \in 1..Len(ret[p].val) :
        LET fk == ret[p].val[n]
            raw == RawFkRows(p, fk.constraint_name)
        IN  /\ Len(fk.columns) = Len(fk.referenced_columns)
            /\ Len(fk.column_pairs) = Len(fk.columns)
            /\ Len(fk.columns) = Cardinality(raw)
            /\ \A i \in 1..Len(fk.columns) :
                 /\ fk.column_pairs[i] = << fk.columns[i], fk.referenced_columns[i] >>
                 /\ \E r \in raw :
                      /\ r.position = i
                      /\ r.src_col = fk.columns[i]
                      /\ r.tgt_col = fk.referenced_columns[i]

\* C14: list_foreign_keys has returned a two-column foreign key whose catalog
\* rows lie in the catalog with position 2 before position 1
C14_Witness ==
  /\ Returned(1, "ext.list_foreign_keys")
  /\ \E n \in 1..Len(ret[1].val) :
       /\ Len(ret[1].val[n].columns) > 1
       /\ \E i, j \in 1..Len(cat[1].fkrows) :
            /\ i < j
            /\ cat[1].fkrows[i].constraint_name = ret[1].val[n].constraint_name
            /\ cat[1].fkrows[j].constraint_name = ret[1].val[n].constraint_name
            /\ cat[1].fkrows[i].position > cat[1].fkrows[j].position

\* C15: in every PrimaryKeyInfo list_primary_keys returns, columns and
\* ordinal_positions have the same length and the ordinal positions are
\* strictly increasing.
C15_PrimaryKeyPositions ==
  \A p \in Procs :
    Returned(p, "ext.list_primary_keys") =>
      \A n \in 1..Len(ret[p].val) :
        LET pk == ret[p].val[n]
        IN  /\ Len(pk.columns) = Len(pk.ordinal_positions)
            /\ \A i \in 1..(Len(pk.ordinal_positions) - 1) :
                 pk.ordinal_positions[i] < pk.ordinal_positions[i + 1]

\* the tables of the catalog that pass the two filters of list_tables, a given
\* schemas list being a restriction whatever its length
FilteredTables(c, a) ==
  {[schema |-> r.table_schema, table_name |-> r.table_name, table_type |-> r.table_type] :
     r \in {r \in SeqToSet(c.tables) :
              /\ a.include_system_schemas \/ r.table_schema \notin SystemSchemas
              /\ a.schemas.given => r.table_schema \in SeqToSet(a.schemas.list)}}

\* C18: list_tables returns exactly the catalog's tables that pass both filters
\* (no system schema unless include_system_schemas; the schema in the schemas
\* list whenever one is given, the empty list included), each once, in
\* ascending (schema, table) order.
C18_ListTablesFilters ==
  \A p \in Procs :
    Returned(p, "ext.list_tables") =>
      /\ SeqToSet(ret[p].val) = FilteredTables(cat[p], arg[p])
      /\ \A n \in 1..(Len(ret[p].val) - 1) :
           KeyLess(Key2(ret[p].val[n].schema, ret[p].val[n].table_name),
                   Key2(ret[p].val[n + 1].schema, ret[p].val[n + 1].table_name))

\* the meta_primary_key_columns rows of a primary key
PkColumnRows(st, k) == {r \in st.meta_primary_key_columns : r.pk_id = k.id}

\* the key's columns read back: (column name, ordinal position) of its rows,
\* ORDER BY ordinal_position
PkReadBack(st, k) ==
  LET rows == SetToSeq(PkColumnRows(st, k))
      sorted == SortByKey(rows, [n \in 1..Len(rows) |-> << rows[n].ordinal_position >>])
  IN  [n \in 1..Len(sorted) |->
         << ColumnName(st, sorted[n].column_id), sorted[n].ordinal_position >>]

\* the primary keys the snapshot holds for the table fq
SnapshotPksOf(s, fq) ==
  UNION {SeqToSet(s.per_table_pks[n].val) :
           n \in {n \in 1..Len(s.per_table_pks) : s.per_table_pks[n].key = fq}}

\* C16: after a committed rescan every table of the database has as many
\* primary key rows as the snapshot holds keys for it, and each stored key is a
\* key of the snapshot with columns c1..ck and positions p1..pk: it has exactly
\* k column rows, each referencing a stored column of the key's own table, and
\* read back by ordinal position they are (c1, p1), ..., (ck, pk).
C16_CompositeKeyRoundTrip ==
  \A d \in DbNames :
    last[d].scanned =>
      \A t \in TablesOf(store, d) :
        LET keys == {k \in store.meta_primary_keys : k.table_id = t.id}
            defs == SnapshotPksOf(last[d].snap, t.name)
        IN  /\ Cardinality(keys) = Cardinality(defs)
            /\ \A k \in keys :
                 /\ \A r \in PkColumnRows(store, k) :
                      \E c \in store.meta_columns : c.id = r.column_id /\ c.table_id = t.id
                 /\ \E pk \in defs :
                      /\ Cardinality(PkColumnRows(store, k)) = Len(pk.columns)
                      /\ PkReadBack(store, k) = Zip(pk.columns, pk.ordinal_positions)

\* C16: a rescan has committed a primary key of two columns
C16_Witness ==
  \E d \in DbNames :
    /\ last[d].scanned
    /\ \E k \in store.meta_primary_keys :
         /\ TableName(store, k.table_id) \in TableNames(store, d)
         /\ Len(PkReadBack(store, k)) = 2

\* the operations that only read the store
Reads == {"get_database_id", "list_tables", "list_columns"}

\* C17: no step of get_database_id, list_tables or list_columns changes the
\* committed store or its id sequences; and when the name lookup of such a call
\* (list_columns' table argument being of the form schema.table) finds the
\* database name not registered, the call ends there raising ValueError, the
\* name still not registered.
C17_Step ==
  \A p \in Procs :
    (op[p] \in Reads /\ pc[p] \notin {"idle", "done"} /\ pc'[p] # pc[p]) =>
      /\ store' = store
      /\ ids' = ids
      /\ (pc[p] = "get_id" /\ DatabaseIds(store, dbname[p]) = {}) =>
           /\ pc'[p] = "done"
           /\ ret'[p] = Raise("ValueError")
           /\ DatabaseIds(store', dbname[p]) = {}

C17_UnregisteredNameNotFound == [][C17_Step]_vars

\* C17: list_columns, called with a table argument schema.table, has raised
\* ValueError for a name that is not registered while another name is
C17_Witness ==
  \E p \in Procs :
    /\ pc[p] = "done"
    /\ op[p] = "list_columns"
    /\ HasDot(arg[p])
    /\ ret[p] = Raise("ValueError")
    /\ DatabaseIds(store, dbname[p]) = {}
    /\ store.meta_databases # {}

\* the columns the snapshot holds for the table fq, as (name, data_type) pairs
\* in the order the extractor returned them
SnapshotColumns(s, fq) ==
  LET n == CHOOSE n \in 1..Len(s.per_table_columns) : s.per_table_columns[n].key = fq
      cols == s.per_table_columns[n].val
  IN  [i \in 1..Len(cols) |-> << cols[i].name, cols[i].data_type >>]

\* list_columns has returned to p the columns of a table of the last committed
\* rescan of its database
ReadScannedColumns(p) ==
  /\ pc[p] = "done"
  /\ op[p] = "list_columns"
  /\ ret[p].ok
  /\ last[dbname[p]].scanned
  /\ arg[p] \in SnapshotNames(last[dbname[p]].snap)

\* C19: list_columns(D, 'schema.table') after a committed rescan of D returns
\* the (name, data_type) pairs the extractor returned for the table, in the
\* extractor's (declaration) order.
C19_ColumnOrderFidelity ==
  \A p \in Procs :
    ReadScannedColumns(p) => ret[p].val = SnapshotColumns(last[dbname[p]].snap, arg[p])

\* the column, primary key and foreign key rows a transaction has inserted
ChildRows(t) ==
  << t.ins.meta_columns, t.ins.meta_primary_keys, t.ins.meta_primary_key_columns,
     t.ins.meta_foreign_keys, t.ins.meta_foreign_key_columns >>

\* every table of p's snapshot is inserted in p's transaction and its id is
\* recorded in table_id_by_fq
AllTablesInserted(p) ==
  \A fq \in SnapshotNames(snap[p]) :
    /\ fq \in DOMAIN loc[p].table_id_by_fq
    /\ \E r \in tx[p].ins.meta_tables :
         r.name = fq /\ r.id = loc[p].table_id_by_fq[fq]

\* C20: a step of rescan_schema's write phase that inserts a column, primary
\* key or foreign key row is taken only when every table of the snapshot is
\* inserted and recorded in the table-id map; and the step that handles the
\* foreign keys of one table does not raise the missing-table error when all
\* of them reference tables of the snapshot (the table itself and tables later
\* in extraction order included), and unless it fails it leaves for each of
\* them a foreign key row from the source table's id to the referenced
\* table's id.
C20_Step ==
  \A p \in Procs :
    /\ (ChildRows(tx'[p]) # ChildRows(tx[p]) /\ tx'[p].open) => AllTablesInserted(p)
    /\ (pc[p] = "insert_fks" /\ (pc'[p] # pc[p] \/ idx'[p] # idx[p])) =>
         LET item == snap[p].per_table_fks[idx[p]]
             tmap == loc[p].table_id_by_fq
             Tgt(n) == _fq(item.val[n].referenced_schema, item.val[n].referenced_table)
         IN  (\A n \in 1..Len(item.val) : Tgt(n) \in SnapshotNames(snap[p])) =>
               /\ ret'[p].err # "RuntimeError"
               /\ (pc'[p] # "done") =>
                    \A n \in 1..Len(item.val) :
                      \E k \in tx'[p].ins.meta_foreign_keys :
                        /\ k.table_id = tmap[item.key]
                        /\ k.referenced_table_id = tmap[Tgt(n)]
                        /\ k \notin tx[p].ins.meta_foreign_keys

C20_TablesBeforeChildren == [][C20_Step]_vars

\* C20: a rescan has committed a foreign key of a table to itself and a foreign
\* key to a table inserted after the source table
C20_Witness ==
  \E d \in DbNames :
    /\ last[d].scanned
    /\ \E k \in store.meta_foreign_keys :
         /\ TableName(store, k.table_id) \in TableNames(store, d)
         /\ k.table_id = k.referenced_table_id
    /\ \E k \in store.meta_foreign_keys :
         /\ TableName(store, k.table_id) \in TableNames(store, d)
         /\ k.table_id < k.referenced_table_id

\* the column pairs of a stored foreign key read back: (source column name,
\* referenced column name) of its rows, ORDER BY ordinal_position
FkReadBack(st, k) ==
  LET rows == SetToSeq(FkColumnRows(st, k))
      sorted == SortByKey(rows, [n \in 1..Len(rows) |-> << rows[n].ordinal_position >>])
  IN  [n \in 1..Len(sorted) |->
         << ColumnName(st, sorted[n].column_id),
            ColumnName(st, sorted[n].referenced_column_id) >>]

\* the foreign key entries the snapshot holds for the table fq
SnapshotFksOf(s, fq) ==
  UNION {SeqToSet(s.per_table_fks[n].val) :
           n \in {n \in 1..Len(s.per_table_fks) : s.per_table_fks[n].key = fq}}

\* the entry gives a column_pairs list that is not empty
HasPairs(e) == "column_pairs" \in DOMAIN e /\ e.column_pairs # << >>

\* C21: after a committed rescan, each foreign key entry of the snapshot is
\* stored with the column rows of its column_pairs list, in that list's order,
\* when the entry has a non-empty column_pairs (whatever its flat lists say),
\* and with the positional pairing of columns and referenced_columns when
\* column_pairs is absent or empty.
C21_PairsAuthoritative ==
  \A d \in DbNames :
    last[d].scanned =>
      \A t \in TablesOf(store, d) :
        \A e \in SnapshotFksOf(last[d].snap, t.name) :
          \E k \in store.meta_foreign_keys :
            /\ k.table_id = t.id
            /\ FkReadBack(store, k) =
                 IF HasPairs(e) THEN e.column_pairs
                 ELSE [n \in 1..Len(e.columns) |-> << e.columns[n], e.referenced_columns[n] >>]

\* the foreign key entries of p.t in the snapshot last committed for d
CommittedEntries(d) ==
  IF last[d].scanned THEN SnapshotFksOf(last[d].snap, tfq) ELSE {}

\* C21: a rescan has committed an entry whose column_pairs disagrees with its
\* flat lists
C21_Witness ==
  \E e \in CommittedEntries("shop") \cup CommittedEntries("crm") :
    /\ HasPairs(e)
    /\ e.column_pairs # Zip(e.columns, e.referenced_columns)
    /\ store.meta_foreign_key_columns # {}

\* the rows a rescan's transaction has inserted below meta_databases
WrittenRows(t) == t.ins.meta_tables # {} \/ ChildRows(t) # ChildRows(NoTx)

\* C22: whenever the transaction of a rescan_schema run holds a table, column,
\* primary key or foreign key row, the run's database_id is the id of the one
\* database row with the run's name, and every table row of the transaction
\* carries that id; and every committed table row belongs to exactly one
\* registered database.
C22_OneDatabasePerRun ==
  /\ \A p \in Procs :
       (op[p] = "rescan_schema" /\ tx[p].open /\ WrittenRows(tx[p])) =>
         /\ {r \in store.meta_databases \cup tx[p].ins.meta_databases : r.name = dbname[p]}
              = {[id |-> loc[p].database_id, name |-> dbname[p]]}
         /\ \A r \in tx[p].ins.meta_tables : r.database_id = loc[p].database_id
  /\ \A t \in store.meta_tables :
       Cardinality({r \in store.meta_databases : r.id = t.database_id}) = 1

\* C22: a run holds table and column rows while the tables of an earlier run
\* are committed
C22_Witness ==
  /\ \E p \in Procs :
       /\ op[p] = "rescan_schema"
       /\ tx[p].open
       /\ tx[p].ins.meta_tables # {}
       /\ tx[p].ins.meta_columns # {}
  /\ store.meta_tables # {}

\* C23: at most one engine is ever created for a logical database name, and
\* all the get_engine calls that have returned for a name hold the same engine.
C23_OneEnginePerName ==
  /\ \A d \in DbNames : Cardinality({c \in created : c.name = d}) <= 1
  /\ \A t, u \in Procs :
       (gpc[t] = "done" /\ gpc[u] = "done" /\ gname[t] = gname[u]) => gret[t] = gret[u]

\* C24: a step of add_database's name check or connection test changes neither
\* the store, nor its id sequences, nor the transaction; an empty name ends the
\* call at the name check with ValueError; the connection test either passes
\* on to the transaction or ends the call with ValueError; and the transaction
\* with the upsert is entered only from a connection test that succeeded.
C24_Step ==
  \A p \in Procs :
    (op[p] = "add_database" /\ pc'[p] # pc[p]) =>
      /\ pc[p] \in {"check_name", "ping"} =>
           store' = store /\ ids' = ids /\ tx'[p] = tx[p]
      /\ pc[p] = "check_name" =>
           IF dbname[p] = ""
           THEN pc'[p] = "done" /\ ret'[p] = Raise("ValueError")
           ELSE pc'[p] = "ping"
      /\ pc[p] = "ping" =>
           pc'[p] = "begin" \/ (pc'[p] = "done" /\ ret'[p] = Raise("ValueError"))
      /\ pc'[p] \in {"begin", "upsert"} =>
           pc[p] = (IF pc'[p] = "begin" THEN "ping" ELSE "begin")

C24_PingBeforeUpsert == [][C24_Step]_vars

\* C24: add_database of a name that is not empty has raised ValueError while
\* another database is registered, and the store is the one it was called on
C24_Witness ==
  \E p \in Procs :
    /\ pc[p] = "done"
    /\ op[p] = "add_database"
    /\ dbname[p] # ""
    /\ ret[p] = Raise("ValueError")
    /\ store.meta_databases # {}
    /\ store = pre[p].store

\* the app.run_history rows written since the run was called
Logged == history \ run.pre

\* the row is a history entry of the finished run: its database, statement,
\* ok, duration and error
EntryOfRun(row) ==
  /\ row.database_id \in RunDatabaseIds
  /\ row.sql_text = run.sql
  /\ row.ok = run.ok
  /\ row.duration_ms = run.dt
  /\ row.error_text = run.err

\* run has returned its result: it did not raise, and a failing statement
\* gives ok = false with the error text
RunReturned ==
  /\ ~run.ret.raised
  /\ run.ret.ok = run.ok
  /\ run.ret.duration_ms = run.dt
  /\ run.ret.error = run.err
  /\ ~run.ok => run.ret.error # ""

\* on_logged was called at most once, and only with the entry that was written
CallbackOnce ==
  /\ run.cbs <= 1
  /\ run.cbs = 1 => run.history_entry \in Logged

\* C25 as claimed: a finished run has returned its result without raising;
\* when its database is registered, exactly one history row was written for
\* it, with the run's ok, duration and error; on_logged was called at most
\* once and only when the row was written.
C25_RunLogsOnce ==
  run.pc = "done" =>
    /\ RunReturned
    /\ RunDatabaseIds # {} =>
         /\ Cardinality(Logged) = 1
         /\ \A row \in Logged : EntryOfRun(row)
    /\ CallbackOnce

\* C25 amended: the history row is written exactly once when the service has
\* both repositories and neither get_database_id nor add_history raised; in
\* every other case no row is written.
C25_RunLogsOnceUnlessLoggingFails ==
  run.pc = "done" =>
    /\ RunReturned
    /\ IF RunDatabaseIds # {} /\ run.repos /\ ~run.logfail
       THEN /\ Cardinality(Logged) = 1
            /\ \A row \in Logged : EntryOfRun(row)
       ELSE Logged = {}
    /\ CallbackOnce

\* C25: after a run that was logged, a failing statement on the registered
\* database has returned while its logging failed
C25_Witness ==
  /\ run.pc = "done"
  /\ ~run.ok
  /\ RunDatabaseIds # {}
  /\ run.repos
  /\ run.logfail
  /\ run.pre # {}

\* the content of a snapshot, in the shape of Subtree
SnapshotContent(s) ==
  [tables |-> SnapshotNames(s),
   columns |-> UNION { { << s.per_table_columns[n].key,
                            s.per_table_columns[n].val[m].name,
                            s.per_table_columns[n].val[m].data_type >> :
                          m \in 1..Len(s.per_table_columns[n].val) } :
                       n \in 1..Len(s.per_table_columns) },
   primary_keys |-> UNION { { << s.per_table_pks[n].key,
                                 SeqToSet(Zip(s.per_table_pks[n].val[m].columns,
                                              s.per_table_pks[n].val[m].ordinal_positions)) >> :
                               m \in 1..Len(s.per_table_pks[n].val) } :
                            n \in 1..Len(s.per_table_pks) },
   foreign_keys |-> SnapshotForeignKeys(s)]

\* C26: at every moment of a sequence of rescan_schema calls run one after
\* another, the content stored for a database is the content of the snapshot
\* of the last rescan of it that committed, and is empty when none has
\* committed; a rescan that fails changes nothing of it.
C26_LastCommittedSnapshot ==
  \A d \in DbNames :
    Subtree(store, d) =
      IF last[d].scanned THEN SnapshotContent(last[d].snap) ELSE SnapshotContent(NoSnap)

\* C26: a rescan has failed inside its store transaction, after its DELETE,
\* over a database whose last committed snapshot has columns and keys
C26_Witness ==
  /\ RescanFailed(1)
  /\ ret[1].err = "OperationalError"
  /\ last[dbname[1]].scanned
  /\ SnapshotContent(last[dbname[1]].snap).foreign_keys # {}
  /\ pre[1].store = store
  /\ ids.meta_tables > pre[1].ids.meta_tables

\* C27: tables of a snapshot with different (schema, table_name) pairs have
\* different fully-qualified names, and once the source is read each of the
\* three dicts holds one item per table of the snapshot.
C27_DistinctTablesDistinctNames ==
  \A p \in Procs :
    op[p] = "rescan_schema" =>
      /\ \A m, n \in 1..Len(snap[p].tables) :
           << snap[p].tables[m].schema, snap[p].tables[m].table_name >>
             # << snap[p].tables[n].schema, snap[p].tables[n].table_name >>
           => _fq(snap[p].tables[m].schema, snap[p].tables[m].table_name)
                # _fq(snap[p].tables[n].schema, snap[p].tables[n].table_name)
      /\ pc[p] \in {"ext_exit", "begin"} =>
           /\ Len(snap[p].per_table_columns) = Len(snap[p].tables)
           /\ Len(snap[p].per_table_pks) = Len(snap[p].tables)
           /\ Len(snap[p].per_table_fks) = Len(snap[p].tables)

\* the names of the columns the snapshot holds for the table fq
SnapshotColumnNames(s, fq) ==
  UNION { {s.per_table_columns[n].val[m].name : m \in 1..Len(s.per_table_columns[n].val)} :
          n \in {n \in 1..Len(s.per_table_columns) : s.per_table_columns[n].key = fq} }

\* a pair of a foreign key of the snapshot names a column that the snapshot
\* does not hold for the source table, or for the referenced table
HasMissingColumn(s) ==
  \E n \in 1..Len(s.per_table_fks) :
    \E e \in SeqToSet(s.per_table_fks[n].val) :
      \E i \in 1..Len(PairsOf(e)) :
        \/ PairsOf(e)[i][1] \notin SnapshotColumnNames(s, s.per_table_fks[n].key)
        \/ PairsOf(e)[i][2] \notin
             SnapshotColumnNames(s, _fq(e.referenced_schema, e.referenced_table))

\* C28: in the committed store the source column of every foreign key column
\* row is a column of the foreign key's source table, its referenced column a
\* column of the referenced table, and the two tables are of one database; a
\* rescan whose snapshot has a pair naming a column its table does not have
\* never reaches COMMIT, and when it raises on the missing column the store is
\* the one it was called on.
C28_FkColumnsOfTheirTables ==
  /\ \A k \in store.meta_foreign_keys :
       /\ \A r \in FkColumnRows(store, k) :
            /\ \E c \in store.meta_columns : c.id = r.column_id /\ c.table_id = k.table_id
            /\ \E c \in store.meta_columns :
                 c.id = r.referenced_column_id /\ c.table_id = k.referenced_table_id
       /\ \E t, u \in store.meta_tables :
            t.id = k.table_id /\ u.id = k.referenced_table_id /\ t.database_id = u.database_id
  /\ \A p \in Procs :
       /\ (op[p] = "rescan_schema" /\ pc[p] = "commit") => ~HasMissingColumn(snap[p])
       /\ (RescanFailed(p) /\ ret[p].err = "KeyError") =>
            store = pre[p].store /\ tx[p] = NoTx

\* C28: a rescan has raised on a missing column over a store that holds the
\* foreign keys of an earlier rescan
C28_Witness ==
  /\ RescanFailed(1)
  /\ ret[1].err = "KeyError"
  /\ store.meta_foreign_key_columns # {}

\* the last committed rescan of d found no table
ScannedEmpty(d) == last[d].scanned /\ last[d].snap.tables = << >>

\* C29: after a committed rescan of d that found no table, d is registered, no
\* table is stored for d, no stored column or key hangs on a table that is not
\* stored, and list_tables(d) returns the empty list.
C29_EmptySnapshotClears ==
  /\ \A d \in DbNames :
       ScannedEmpty(d) =>
         /\ Cardinality(DatabaseIds(store, d)) = 1
         /\ TablesOf(store, d) = {}
  /\ (\E d \in DbNames : ScannedEmpty(d)) =>
       LET tids == {t.id : t \in store.meta_tables}
       IN  /\ \A c \in store.meta_columns : c.table_id \in tids
           /\ \A k \in store.meta_primary_keys : k.table_id \in tids
           /\ \A k \in store.meta_foreign_keys :
                k.table_id \in tids /\ k.referenced_table_id \in tids
           /\ \A r \in store.meta_primary_key_columns :
                \E k \in store.meta_primary_keys : k.id = r.pk_id
           /\ \A r \in store.meta_foreign_key_columns :
                \E k \in store.meta_foreign_keys : k.id = r.fk_id
  /\ \A p \in Procs :
       (pc[p] = "done" /\ op[p] = "list_tables" /\ ScannedEmpty(dbname[p])) =>
         ret[p] = Ok(<< >>)

\* C29: list_tables has returned the empty list for a database whose tables, of
\* an earlier rescan, a rescan that found no table has deleted
C29_Witness ==
  \E p \in Procs :
    /\ pc[p] = "done"
    /\ op[p] = "list_tables"
    /\ ret[p] = Ok(<< >>)
    /\ ScannedEmpty(dbname[p])
    /\ ids.meta_foreign_keys > 0
    /\ store.meta_tables = {}

\* C30: the extractor's connection, when it holds one outside close, is checked
\* out of the pool, and a connection is checked out only while it holds none; connect on
\* an extractor that holds a connection changes nothing; close ends with no
\* connection and no cursor held and the held connection closed; and when
\* rescan_schema returns or raises, no connection is left checked out.
C30_Step ==
  /\ (ext'.conn # 0 /\ ext'.pc # "reset") => ext'.conn \in pool'.out
  /\ pool'.out # pool.out /\ pool'.seq # pool.seq =>
       ext.conn = 0 /\ pool'.out = pool.out \cup {pool.seq + 1} /\ pool.seq + 1 \notin pool.out
  /\ (ext.pc = "connect" /\ ext.conn # 0 /\ ext'.pc # ext.pc) =>
       /\ pool' = pool
       /\ ext'.conn = ext.conn /\ ext'.cursor = ext.cursor
       /\ ext'.pc = Connected
  /\ (ext.pc = "reset" /\ ext'.pc # ext.pc) =>
       /\ ext'.conn = 0 /\ ext'.cursor = 0
       /\ ext.conn \notin pool'.out
  /\ (ext'.pc \in {"returned", "raised"} /\ ext'.pc # ext.pc) => pool'.out = {}

C30_OneConnectionReleased == [][C30_Step]_vars
====
